---- MODULE Spec2Model ----
(***************************************************************************)
(* Model of the finance application's Rate Governor (lib/rate-limit), of   *)
(* the summary handler (app/api/summary/route.ts) with the persistence it  *)
(* queries, of the Text-Understanding Adapter (lib AI client) and of the   *)
(* SummaryChart component that requests the summary.                       *)
(*                                                                         *)
(* The specifications share the variables:                                 *)
(*   SpecLimiter  - rateLimit called directly with arbitrary configs       *)
(*   SpecKeys     - rateLimit called for pairs of arbitrary strings        *)
(*   SpecHandlers - concurrent GET /api/summary handlers (auth, rateLimit) *)
(*   SpecSummary  - one summary request; the ledger changes between steps  *)
(*   SpecRace     - one summary request; the ledger changes under queries  *)
(*   SpecPeriod   - one summary request with arbitrary period values       *)
(*   SpecPosted   - one summary request over entries the endpoints stored  *)
(*   SpecAI       - categorize / parse-from-text / insights calls          *)
(*   SpecParse    - parse-from-text when the provider returns an object    *)
(*   SpecRoutes   - the categorize, parse-expense and insights handlers    *)
(*   SpecGoverned - the governed handlers, with and without a session      *)
(*   SpecChart    - the SummaryChart component and its summary requests    *)
(***************************************************************************)
EXTENDS Integers, Sequences, FiniteSets, TLC

VARIABLES
    clock,           \* Date.now() in milliseconds
    rateLimitStore,  \* Map<string, RateLimitEntry>: a function on the present keys
    lastCleanup,     \* module variable lastCleanup
    cfgOf,           \* the RateLimitConfig the callers use for each endpoint
    lastCall,        \* the most recent rateLimit call and its result
    gWinEnd,         \* history: end of the window a key's calls are counted in
    gCalls,          \* history: calls made for the key in that window
    gPassed,         \* history: calls of that window that returned success
    unswept,         \* the store and last result of the same limiter with no sweep
    curMonth,        \* the calendar month of new Date(), as year * 12 + (month - 1)
    db,              \* the ledger tables: kind -> set of rows
    pc,              \* where each summary request's handler is suspended
    req,             \* each request's session identity and query parameters
    seen,            \* the ledger states that existed since the handler first awaited queries
    from,            \* the first of them that the queries now pending can have read
    res,             \* the query results the handler holds
    response,        \* the response each handler returned
    budget,          \* requests still to arrive
    ai,              \* the call of an adapter function: its position, input and result
    chart            \* the SummaryChart component: its state, ref, requests and cache

limVars == <<clock, rateLimitStore, lastCleanup, cfgOf, lastCall, gWinEnd, gCalls, gPassed, unswept>>

sumVars == <<curMonth, db, pc, req, seen, from, res, response, budget>>

aiVars == <<ai>>

uiVars == <<chart>>

vars == <<limVars, sumVars, aiVars, uiVars>>

\* no adapter call is under way
Idle == [pc |-> "idle"]

\* no SummaryChart is rendered
Unmounted == [mounted |-> FALSE]

----------------------------------------------------------------------------
(* Bounds *)

MaxMinutes == 2          \* the clock runs over MaxMinutes cleanup intervals
MaxRequestsBound == 2    \* configs drawn for direct calls have maxRequests in 1..MaxRequestsBound
MaxCallsPerWindow == 4   \* direct calls made for one key inside one window
MaxBurst == 32           \* summary requests that arrive in a burst
MaxVersions == 2         \* ledger states a handler can see while it awaits its queries
MaxMonthsPassed == 1     \* calendar months that pass during a run
MaxRows == 2             \* rows in the ledger of a quiescent run
MaxRaceRows == 1         \* rows in the ledger of a run with racing writes
MaxTextLen == 3          \* characters in a text given to parseExpenseFromText
MaxReplyLen == 3         \* characters or tokens in a content the provider returns
MaxFetches == 3          \* summary requests that one SummaryChart issues
MaxGoverned == 1         \* requests with a session to each governed endpoint in a mixed run

----------------------------------------------------------------------------
(* Numerals: the digits of strings that the code parses or prints *)

Digits == {"0", "1", "2", "3", "4", "5", "6", "7", "8", "9"}

DigitValue(c) ==
    CASE c = "0" -> 0 [] c = "1" -> 1 [] c = "2" -> 2 [] c = "3" -> 3 [] c = "4" -> 4
      [] c = "5" -> 5 [] c = "6" -> 6 [] c = "7" -> 7 [] c = "8" -> 8 [] c = "9" -> 9

DigitChar(d) == <<"0", "1", "2", "3", "4", "5", "6", "7", "8", "9">>[d + 1]

\* the longest run of digits of s that starts at position i (empty if none)
RECURSIVE DigitRun(_, _)
DigitRun(s, i) ==
    IF i > Len(s) \/ s[i] \notin Digits THEN <<>> ELSE <<s[i]>> \o DigitRun(s, i + 1)

\* parseInt of a run of digits
RECURSIVE ParseInt(_)
ParseInt(ds) ==
    IF ds = <<>> THEN 0 ELSE ParseInt(SubSeq(ds, 1, Len(ds) - 1)) * 10 + DigitValue(ds[Len(ds)])

\* n written with at least width digits
RECURSIVE ZeroPadded(_, _)
ZeroPadded(n, width) ==
    IF width <= 1 /\ n < 10 THEN <<DigitChar(n)>>
    ELSE ZeroPadded(n \div 10, width - 1) \o <<DigitChar(n % 10)>>

\* the decimal digits of a natural number
IntChars(n) == ZeroPadded(n, 1)

\* parseInt(s) of a string without sign or leading blanks: the number its
\* leading digits spell, or NaN (<<>>) when it starts with no digit
parseInt(s) == IF DigitRun(s, 1) = <<>> THEN <<>> ELSE <<ParseInt(DigitRun(s, 1))>>

----------------------------------------------------------------------------
(* lib/rate-limit *)

CLEANUP_INTERVAL == 60000
MsPerSecond == 1000

Identifiers == {"u1", "u2"}
Endpoints == {"summary", "ai"}

\* const key = `${identifier}:${endpoint}`
Key(identifier, endpoint) == identifier \o ":" \o endpoint

Keys == {Key(i, e) : i \in Identifiers, e \in Endpoints}

\* Math.ceil(a / b) for b > 0
CeilDiv(a, b) == -((-a) \div b)

\* rateLimitStore.set(key, entry)
MapSet(store, key, entry) ==
    [k \in (DOMAIN store) \cup {key} |-> IF k = key THEN entry ELSE store[k]]

\* rateLimitStore.delete of every key in dead
MapDelete(store, dead) == [k \in (DOMAIN store) \ dead |-> store[k]]

\* entry.resetTime < now : the entry's window is over
ExpiredLate(entry, now) == entry.resetTime + MsPerSecond < now

Expired(entry, now) == entry.resetTime < now

\* function cleanup()
cleanupAlways(store, last, now) ==
    [store |-> MapDelete(store, {k \in DOMAIN store : Expired(store[k], now)}),
     lastCleanup |-> now]

cleanupLate(store, last, now) ==
    IF now - last <= CLEANUP_INTERVAL
    THEN [store |-> store, lastCleanup |-> last]
    ELSE [store |-> MapDelete(store, {k \in DOMAIN store : Expired(store[k], now)}),
          lastCleanup |-> now]

cleanupAll(store, last, now) ==
    IF now - last < CLEANUP_INTERVAL
    THEN [store |-> store, lastCleanup |-> last]
    ELSE [store |-> MapDelete(store, DOMAIN store), lastCleanup |-> now]

cleanup(store, last, now) ==
    IF now - last < CLEANUP_INTERVAL
    THEN [store |-> store, lastCleanup |-> last]
    ELSE [store |-> MapDelete(store, {k \in DOMAIN store : Expired(store[k], now)}),
          lastCleanup |-> now]

\* entry.count >= config.maxRequests
LimitReachedOffByOne(entry, config) == entry.count > config.maxRequests

LimitReached(entry, config) == entry.count >= config.maxRequests

\* entry.count++
IncrementedLost(entry) == entry

Incremented(entry) == [entry EXCEPT !.count = @ + 1]

\* export function rateLimit(identifier, endpoint, config)
rateLimit(identifier, endpoint, config, store0, last0, now) ==
    LET swept    == cleanup(store0, last0, now)
        store    == swept.store
        key      == Key(identifier, endpoint)
        windowMs == config.windowSeconds * MsPerSecond
    IN  IF key \notin DOMAIN store \/ Expired(store[key], now)
        THEN [store |-> MapSet(store, key, [count |-> 1, resetTime |-> now + windowMs]),
              lastCleanup |-> swept.lastCleanup,
              result |-> [success |-> TRUE,
                          remaining |-> config.maxRequests - 1,
                          resetIn |-> config.windowSeconds]]
        ELSE IF LimitReached(store[key], config)
        THEN [store |-> store,
              lastCleanup |-> swept.lastCleanup,
              result |-> [success |-> FALSE,
                          remaining |-> 0,
                          resetIn |-> CeilDiv(store[key].resetTime - now, MsPerSecond)]]
        ELSE LET entry == Incremented(store[key])
             IN  [store |-> MapSet(store, key, entry),
                  lastCleanup |-> swept.lastCleanup,
                  result |-> [success |-> TRUE,
                              remaining |-> config.maxRequests - entry.count,
                              resetIn |-> CeilDiv(entry.resetTime - now, MsPerSecond)]]

\* export const RATE_LIMITS
RATE_LIMITS ==
    [standard |-> [maxRequests |-> 60, windowSeconds |-> 60],
     ai       |-> [maxRequests |-> 10, windowSeconds |-> 60],
     auth     |-> [maxRequests |-> 10, windowSeconds |-> 60],
     heavy    |-> [maxRequests |-> 30, windowSeconds |-> 60]]

----------------------------------------------------------------------------
(* Time: Date.now() is read at instants around the window and sweep edges *)

Offsets == {-1, 0, 1, 1000, 1001}

Instants == {t \in {k * CLEANUP_INTERVAL + o : k \in 0..MaxMinutes, o \in Offsets} : t >= 0}

\* direct calls use a one-minute window for "summary" and a one-second window for "ai"
DirectWindowSeconds == [summary |-> 60, ai |-> 1]

DirectConfigs ==
    {c \in [Endpoints -> [maxRequests : 1..MaxRequestsBound, windowSeconds : {1, 60}]] :
        \A e \in Endpoints : c[e].windowSeconds = DirectWindowSeconds[e]}

NoCall == [valid |-> FALSE]

\* The same calls made on a limiter whose cleanup() returns at once: the
\* call is evaluated on the unswept store with lastCleanup = now.
Unswept(identifier, endpoint, config) ==
    LET r == rateLimit(identifier, endpoint, config, unswept.store, clock, clock)
    IN  unswept' = [store |-> r.store, result |-> r.result]

\* History of a key's windows, kept apart from the store: a window is opened
\* by the first call for the key and by every call made after the end of the
\* key's window; every other call is counted in the open window.
WindowCase(key, now) ==
    IF gWinEnd[key] < 0 THEN "first"
    ELSE IF now > gWinEnd[key] THEN "after"
    ELSE IF now = gWinEnd[key] THEN "boundary"
    ELSE "inside"

Opens(key, now) == WindowCase(key, now) \in {"first", "after"}

RecordCall(key, config, r) ==
    LET opens == Opens(key, clock)
        nth   == IF opens THEN 1 ELSE gCalls[key] + 1
        ok    == IF r.result.success THEN 1 ELSE 0
    IN  /\ lastCall' = [valid |-> TRUE, key |-> key, config |-> config,
                        result |-> r.result, case |-> WindowCase(key, clock), nth |-> nth,
                        before |-> gCalls[key]]
        /\ gWinEnd' = IF opens
                      THEN [gWinEnd EXCEPT ![key] = clock + config.windowSeconds * MsPerSecond]
                      ELSE gWinEnd
        /\ gCalls' = [gCalls EXCEPT ![key] = nth]
        /\ gPassed' = [gPassed EXCEPT ![key] = IF opens THEN ok ELSE @ + ok]

InitLimiterState ==
    /\ clock = 0
    /\ rateLimitStore = [k \in {} |-> 0]
    /\ lastCleanup = 0
    /\ lastCall = NoCall
    /\ gWinEnd = [k \in Keys |-> -1]
    /\ gCalls = [k \in Keys |-> 0]
    /\ gPassed = [k \in Keys |-> 0]
    /\ unswept = [store |-> [k \in {} |-> 0], result |-> NoCall]

\* time passes; lastCall describes a call only at the instant it was made
Tick ==
    /\ \E t \in Instants : t > clock /\ clock' = t
    /\ lastCall' = NoCall
    /\ UNCHANGED <<rateLimitStore, lastCleanup, cfgOf, gWinEnd, gCalls, gPassed, unswept>>
    /\ UNCHANGED <<sumVars, aiVars, uiVars>>

\* a caller invokes rateLimit(identifier, endpoint, config)
Call(identifier, endpoint) ==
    LET config == cfgOf[endpoint]
        r      == rateLimit(identifier, endpoint, config, rateLimitStore, lastCleanup, clock)
    IN  /\ Opens(Key(identifier, endpoint), clock)
              \/ gCalls[Key(identifier, endpoint)] < MaxCallsPerWindow
        /\ rateLimitStore' = r.store
        /\ lastCleanup' = r.lastCleanup
        /\ RecordCall(Key(identifier, endpoint), config, r)
        /\ Unswept(identifier, endpoint, config)
        /\ UNCHANGED <<clock, cfgOf>>
        /\ UNCHANGED <<sumVars, aiVars, uiVars>>

----------------------------------------------------------------------------
(* The ledger (prisma expense / income / invoice tables) *)

Kinds == {"expense", "income", "invoice"}

Owners == {"u1"}
Amounts == {1, 2}                    \* amounts in cents
Categories == {"foodDining", "other"}
Statuses == {"PENDING", "PAID", "OVERDUE", "CANCELLED"}

\* category of an expense or income row, status of an invoice row
TagsOf(kind) == IF kind = "invoice" THEN Statuses ELSE Categories

BaseMonth == 2025 * 12 + 10          \* November 2025, the month the run starts in

\* months a row's date (expense.date, income.date, invoice.issueDate) is drawn from
DateMonths == {BaseMonth - 12, BaseMonth - 11, BaseMonth + 1}

TotalRows(d) == Cardinality(d["expense"]) + Cardinality(d["income"]) + Cardinality(d["invoice"])

UsedIds(d) == {row.id : row \in d["expense"] \cup d["income"] \cup d["invoice"]}

\* _sum of amount over a set of rows
RECURSIVE SumAmount(_)
SumAmount(rows) ==
    IF rows = {} THEN 0
    ELSE LET row == CHOOSE x \in rows : TRUE
         IN  row.amount + SumAmount(rows \ {row})

\* prisma aggregate({_sum: {amount: true}, _count: true}): _sum.amount is null
\* (the empty sequence) when no row matches
Aggregate(rows) ==
    [sum   |-> IF rows = {} THEN <<>> ELSE <<SumAmount(rows)>>,
     count |-> Cardinality(rows)]

\* x || 0
OrZero(x) == IF x = <<>> THEN 0 ELSE x[1]

\* where: { userId }
OwnedBy(rows, user) == {row \in rows : row.userId = user}

\* whereCondition: { userId, createdAt: { gte: startDate, lte: endDate } } unless period is "all"
Where(rows, w) ==
    {row \in OwnedBy(rows, w.userId) :
        w.ranged => (w.gte <= row.createdAt /\ row.createdAt <= w.lte)}

\* the groups of a groupBy({by: [tag], _sum, _count})
Groups(rows) ==
    {[key   |-> t,
      sum   |-> Aggregate({row \in rows : row.tag = t}).sum,
      count |-> Cardinality({row \in rows : row.tag = t})] : t \in {row.tag : row \in rows}}

Orderings(S) ==
    {f \in [1..Cardinality(S) -> S] : \A i, j \in 1..Cardinality(S) : i # j => f[i] # f[j]}

\* orderBy: { _sum: { amount: "desc" } }: the engine may return rows of equal sum in any order
SumDescending(f) == \A i \in 1..(Len(f) - 1) : OrZero(f[i].sum) >= OrZero(f[i + 1].sum)

\* the row sequences a groupBy may return
GroupBy(rows, ordered) ==
    {f \in Orderings(Groups(rows)) : ordered => SumDescending(f)}

\* new Date(year, monthIndex, 1) as a month number: out-of-range months carry over
MonthNumber(year, monthIndex) == year * 12 + monthIndex

YearOf(m) == m \div 12
MonthIndexOf(m) == m % 12

\* decimal digits of n, zero padded to width, as character codes
RECURSIVE Padded(_, _)
Padded(n, width) ==
    IF width = 0 THEN <<>> ELSE Padded(n \div 10, width - 1) \o <<48 + (n % 10)>>

\* date.toISOString().slice(0, 7): "YYYY-MM" as character codes ('-' is 45)
MonthKey(m) == Padded(YearOf(m), 4) \o <<45>> \o Padded(MonthIndexOf(m) + 1, 2)

\* a.localeCompare(b) < 0 for strings of digits and '-'
RECURSIVE LocaleLess(_, _)
LocaleLess(a, b) ==
    IF b = <<>> THEN FALSE
    ELSE IF a = <<>> THEN TRUE
    ELSE IF Head(a) # Head(b) THEN Head(a) < Head(b)
    ELSE LocaleLess(Tail(a), Tail(b))

\* .sort((a, b) => b.month.localeCompare(a.month))
RECURSIVE SortMonthDescending(_)
SortMonthDescending(S) ==
    IF S = {} THEN <<>>
    ELSE LET top == CHOOSE x \in S : \A y \in S : ~LocaleLess(x.month, y.month)
         IN  <<top>> \o SortMonthDescending(S \ {top})

\* findMany({where: {userId, date: {gte: start}}}): no upper limit on the date
MonthlyRows(rows, user, start) == {row \in OwnedBy(rows, user) : row.date >= start}

\* the .then() callback: bucket by month key, then sort by key descending
MonthlyTrend(rows, user, start) ==
    LET found == MonthlyRows(rows, user, start)
        keys  == {MonthKey(row.date) : row \in found}
        data  == {[month |-> k,
                   total |-> SumAmount({row \in found : MonthKey(row.date) = k}),
                   count |-> Cardinality({row \in found : MonthKey(row.date) = k})] : k \in keys}
    IN  SortMonthDescending(data)

\* new Date(new Date().getFullYear(), new Date().getMonth() - 11, 1)
LookbackStart(nowMonth) == MonthNumber(YearOf(nowMonth), MonthIndexOf(nowMonth) - 11)

\* item => ({category: item.category, amount: item._sum.amount || 0, count: item._count})
BreakdownRows(groups) ==
    [i \in 1..Len(groups) |->
        [key |-> groups[i].key, amount |-> OrZero(groups[i].sum), count |-> groups[i].count]]

\* incomes + invoices - expenses
NetIncome(incomes, invoices, expenses) ==
    OrZero(incomes.sum) + OrZero(invoices.sum) - OrZero(expenses.sum)

\* { amount: x._sum.amount || 0, count: x._count }
AmountCount(agg) == [amount |-> OrZero(agg.sum), count |-> agg.count]

\* expenses / incomes / invoices / netIncome of totals, thisMonth and selectedPeriod
Section(aggs) ==
    [expenses  |-> AmountCount(aggs["expense"]),
     incomes   |-> AmountCount(aggs["income"]),
     invoices  |-> AmountCount(aggs["invoice"]),
     netIncome |-> NetIncome(aggs["income"], aggs["invoice"], aggs["expense"])]

----------------------------------------------------------------------------
(* GET /api/summary *)

Requests == {"r1", "r2"}

NoUser == "none"                     \* auth() resolved without a session user

Waiting == {"queries", "period", "month"}

NoResponse == [status |-> 0]
NoResults == [stage |-> "none"]

\* parseInt(searchParams.get("year") || new Date().getFullYear().toString())
YearParam(p, nowMonth) == parseInt(IF p.year = <<>> THEN IntChars(YearOf(nowMonth)) ELSE p.year)

\* parseInt(searchParams.get("month") || (new Date().getMonth() + 1).toString())
MonthParam(p, nowMonth) ==
    parseInt(IF p.month = <<>> THEN IntChars(MonthIndexOf(nowMonth) + 1) ELSE p.month)

\* The switch on period and whereCondition; createdAt is compared by calendar
\* month.  A Date built from NaN is an Invalid Date (valid = FALSE).  A period
\* other than month, year and all takes the default branch of the switch and
\* is ranged from new Date(0) to new Date().
Epoch == MonthNumber(1970, 0)

WhereCondition(p, nowMonth) ==
    LET year  == YearParam(p, nowMonth)
        month == MonthParam(p, nowMonth)
        none  == [userId |-> p.user, ranged |-> TRUE, valid |-> FALSE, gte |-> 0, lte |-> 0]
    IN  IF p.period = "month"
        THEN IF year = <<>> \/ month = <<>> THEN none
             ELSE [userId |-> p.user, ranged |-> TRUE, valid |-> TRUE,
                   gte |-> MonthNumber(year[1], month[1] - 1),
                   lte |-> MonthNumber(year[1], month[1]) - 1]
        ELSE IF p.period = "year"
        THEN IF year = <<>> THEN none
             ELSE [userId |-> p.user, ranged |-> TRUE, valid |-> TRUE,
                   gte |-> MonthNumber(year[1], 0), lte |-> MonthNumber(year[1], 11)]
        ELSE IF p.period = "all"
        THEN [userId |-> p.user, ranged |-> FALSE, valid |-> TRUE, gte |-> 0, lte |-> 0]
        ELSE [userId |-> p.user, ranged |-> TRUE, valid |-> TRUE, gte |-> Epoch, lte |-> nowMonth]

\* thisMonthStart .. thisMonthEnd
ThisMonthCondition(user, nowMonth) ==
    [userId |-> user, ranged |-> TRUE, valid |-> TRUE,
     gte |-> MonthNumber(YearOf(nowMonth), MonthIndexOf(nowMonth)),
     lte |-> MonthNumber(YearOf(nowMonth), MonthIndexOf(nowMonth) + 1) - 1]

\* getRateLimitHeaders(result, config)
getRateLimitHeaders(result, config) ==
    [limit |-> config.maxRequests, remaining |-> result.remaining, reset |-> result.resetIn]

\* a request arrives; the handler runs up to `await auth()`
Receive(r, p) ==
    /\ pc[r] \in {"idle", "done"}
    /\ budget > 0
    /\ budget' = budget - 1
    /\ pc' = [pc EXCEPT ![r] = "auth"]
    /\ req' = [req EXCEPT ![r] = p]
    /\ res' = [res EXCEPT ![r] = NoResults]
    /\ response' = [response EXCEPT ![r] = NoResponse]
    /\ UNCHANGED <<curMonth, db, seen, from>>
    /\ UNCHANGED <<limVars, aiVars, uiVars>>

\* auth() resolves without a user: 401, rateLimit is not called
Unauthorized(r) ==
    /\ pc[r] = "auth"
    /\ req[r].user = NoUser
    /\ pc' = [pc EXCEPT ![r] = "done"]
    /\ response' = [response EXCEPT ![r] = [status |-> 401, headers |-> <<>>]]
    /\ UNCHANGED <<curMonth, db, req, seen, from, res, budget>>
    /\ UNCHANGED <<limVars, aiVars, uiVars>>

\* auth() resolves with a user: rateLimit, then either 429 or the period is
\* resolved and the twelve queries of the first Promise.all are issued
Authorized(r) ==
    /\ pc[r] = "auth"
    /\ req[r].user # NoUser
    /\ LET config == RATE_LIMITS.heavy
           rl     == rateLimit(req[r].user, "summary", config, rateLimitStore, lastCleanup, clock)
       IN  /\ rateLimitStore' = rl.store
           /\ lastCleanup' = rl.lastCleanup
           /\ RecordCall(Key(req[r].user, "summary"), config, rl)
           /\ Unswept(req[r].user, "summary", config)
           /\ IF ~rl.result.success
              THEN /\ pc' = [pc EXCEPT ![r] = "done"]
                   /\ response' = [response EXCEPT ![r] =
                          [status |-> 429,
                           headers |-> <<getRateLimitHeaders(rl.result, config)>>]]
                   /\ UNCHANGED <<seen, from, res>>
              ELSE /\ pc' = [pc EXCEPT ![r] = "queries"]
                   /\ seen' = [seen EXCEPT ![r] = <<db>>]
                   /\ from' = [from EXCEPT ![r] = 1]
                   /\ res' = [res EXCEPT ![r] =
                          [stage    |-> "issued",
                           where    |-> WhereCondition(req[r], curMonth),
                           lookback |-> LookbackStart(curMonth)]]
                   /\ UNCHANGED response
    /\ UNCHANGED <<clock, cfgOf, curMonth, db, req, budget, ai, uiVars>>

\* the first Promise.all resolves: every query has read one of the ledger
\* states that existed since it was issued.  The three recent-rows lists
\* (findMany ... take: 5) are copied to summary.recent and are not modelled.
QueriesResolved(r) ==
    /\ pc[r] = "queries"
    /\ res[r].where.valid
    /\ \E vt \in [Kinds -> from[r]..Len(seen[r])],
          vb \in [Kinds -> from[r]..Len(seen[r])],
          vm \in [Kinds -> from[r]..Len(seen[r])] :
        \E be \in GroupBy(Where(seen[r][vb["expense"]]["expense"], res[r].where), TRUE),
           bi \in GroupBy(Where(seen[r][vb["income"]]["income"], res[r].where), TRUE),
           bv \in GroupBy(Where(seen[r][vb["invoice"]]["invoice"], res[r].where), FALSE) :
            res' = [res EXCEPT ![r] =
                [stage     |-> "totals",
                 where     |-> res[r].where,
                 total     |-> [k \in Kinds |-> Aggregate(Where(seen[r][vt[k]][k], res[r].where))],
                 by        |-> [expense |-> be, income |-> bi, invoice |-> bv],
                 monthly   |-> [k \in Kinds |->
                                   MonthlyTrend(seen[r][vm[k]][k], req[r].user, res[r].lookback)],
                 thisMonth |-> ThisMonthCondition(req[r].user, curMonth)]]
    /\ pc' = [pc EXCEPT ![r] = IF req[r].period \in {"month", "year"} THEN "period" ELSE "month"]
    /\ from' = [from EXCEPT ![r] = Len(seen[r])]
    /\ UNCHANGED <<curMonth, db, req, seen, response, budget>>
    /\ UNCHANGED <<limVars, aiVars, uiVars>>

\* Prisma refuses a query whose filter holds an Invalid Date: the Promise.all
\* rejects, and the catch block answers 500.  (Were the queries to run, the
\* report would still fail at startDate.toISOString() in summary.meta.)
QueriesRejected(r) ==
    /\ pc[r] = "queries"
    /\ ~res[r].where.valid
    /\ response' = [response EXCEPT ![r] = [status |-> 500, headers |-> <<>>]]
    /\ pc' = [pc EXCEPT ![r] = "done"]
    /\ seen' = [seen EXCEPT ![r] = <<>>]
    /\ from' = [from EXCEPT ![r] = 1]
    /\ res' = [res EXCEPT ![r] = NoResults]
    /\ UNCHANGED <<curMonth, db, req, budget>>
    /\ UNCHANGED <<limVars, aiVars, uiVars>>

\* the periodData Promise.all (period month or year) resolves
PeriodResolved(r) ==
    /\ pc[r] = "period"
    /\ \E v \in [Kinds -> from[r]..Len(seen[r])] :
        res' = [res EXCEPT ![r] =
            [stage      |-> "period",
             where      |-> res[r].where,
             total      |-> res[r].total,
             by         |-> res[r].by,
             monthly    |-> res[r].monthly,
             thisMonth  |-> res[r].thisMonth,
             periodData |-> [k \in Kinds |-> Aggregate(Where(seen[r][v[k]][k], res[r].where))]]]
    /\ pc' = [pc EXCEPT ![r] = "month"]
    /\ from' = [from EXCEPT ![r] = Len(seen[r])]
    /\ UNCHANGED <<curMonth, db, req, seen, response, budget>>
    /\ UNCHANGED <<limVars, aiVars, uiVars>>

\* const summary = { totals, thisMonth, selectedPeriod, breakdown, trends, ... }
\* monthName is the calendar month thisMonthStart lies in; meta.startDate and
\* meta.endDate are null (empty) unless the period is ranged
Summary(results, month, period) ==
    [totals         |-> Section(results.total),
     thisMonth      |-> Section(month),
     monthName      |-> results.thisMonth.gte,
     selectedPeriod |-> IF results.stage = "period" THEN <<Section(results.periodData)>> ELSE <<>>,
     breakdown      |-> [k \in Kinds |-> BreakdownRows(results.by[k])],
     trends         |-> [k \in Kinds |-> results.monthly[k]],
     meta           |-> [period    |-> period,
                         startDate |-> IF period # "all" THEN <<results.where.gte>> ELSE <<>>,
                         endDate   |-> IF period # "all" THEN <<results.where.lte>> ELSE <<>>]]

\* the thisMonth Promise.all resolves and the handler answers 200
MonthResolved(r) ==
    /\ pc[r] = "month"
    /\ \E v \in [Kinds -> from[r]..Len(seen[r])] :
        response' = [response EXCEPT ![r] =
            [status  |-> 200,
             headers |-> <<>>,
             body    |-> Summary(res[r],
                            [k \in Kinds |-> Aggregate(Where(seen[r][v[k]][k], res[r].thisMonth))],
                            req[r].period)]]
    /\ pc' = [pc EXCEPT ![r] = "done"]
    /\ seen' = [seen EXCEPT ![r] = <<>>]
    /\ from' = [from EXCEPT ![r] = 1]
    /\ res' = [res EXCEPT ![r] = NoResults]
    /\ UNCHANGED <<curMonth, db, req, budget>>
    /\ UNCHANGED <<limVars, aiVars, uiVars>>

----------------------------------------------------------------------------
(* Writes of other requests: POST, PUT /[id] and DELETE /[id] of the entry routes *)

\* the new ledger becomes visible to every handler that awaits queries
Publish(d) ==
    /\ db' = d
    /\ seen' = [r \in Requests |-> IF pc[r] \in Waiting THEN Append(seen[r], d) ELSE seen[r]]

\* race: whether writes may fall between the queries of a running summary request
\* writes are followed as long as a request is still to arrive or to be answered
Pending == budget > 0 \/ \E r \in Requests : pc[r] \in Waiting \cup {"auth"}

MayWrite(race) ==
    /\ Pending
    /\ \A r \in Requests : pc[r] \in Waiting => (race /\ Len(seen[r]) < MaxVersions)

\* prisma.<kind>.create({data: {amount, category | status, date, userId}})
CreateEntry(kind, user, amount, tag, date, cap, race) ==
    /\ MayWrite(race)
    /\ TotalRows(db) < cap
    /\ LET id  == CHOOSE i \in 1..cap : i \notin UsedIds(db)
           row == [id |-> id, userId |-> user, amount |-> amount, tag |-> tag,
                   date |-> date, createdAt |-> curMonth]
       IN  Publish([db EXCEPT ![kind] = @ \cup {row}])
    /\ UNCHANGED <<curMonth, pc, req, from, res, response, budget>>
    /\ UNCHANGED <<limVars, aiVars, uiVars>>

\* prisma.<kind>.updateMany({where: {id, userId}, data: {amount, category | status, date}})
UpdateEntry(kind, user, id, amount, tag, date, race) ==
    /\ MayWrite(race)
    /\ \E row \in db[kind] :
        /\ row.id = id /\ row.userId = user
        /\ [row EXCEPT !.amount = amount, !.tag = tag, !.date = date] # row
        /\ Publish([db EXCEPT ![kind] =
               (@ \ {row}) \cup {[row EXCEPT !.amount = amount, !.tag = tag, !.date = date]}])
    /\ UNCHANGED <<curMonth, pc, req, from, res, response, budget>>
    /\ UNCHANGED <<limVars, aiVars, uiVars>>

\* prisma.<kind>.deleteMany({where: {id, userId}})
DeleteEntry(kind, user, id, race) ==
    /\ MayWrite(race)
    /\ \E row \in db[kind] :
        /\ row.id = id /\ row.userId = user
        /\ Publish([db EXCEPT ![kind] = @ \ {row}])
    /\ UNCHANGED <<curMonth, pc, req, from, res, response, budget>>
    /\ UNCHANGED <<limVars, aiVars, uiVars>>

\* the calendar month of new Date() changes
NewMonth ==
    /\ Pending
    /\ curMonth < BaseMonth + MaxMonthsPassed
    /\ curMonth' = curMonth + 1
    /\ UNCHANGED <<db, pc, req, seen, from, res, response, budget>>
    /\ UNCHANGED <<limVars, aiVars, uiVars>>

InitSummaryState ==
    /\ curMonth = BaseMonth
    /\ db = [k \in Kinds |-> {}]
    /\ pc = [r \in Requests |-> "idle"]
    /\ req = [r \in Requests |-> [user |-> NoUser, period |-> "all", year |-> <<>>, month |-> <<>>]]
    /\ seen = [r \in Requests |-> <<>>]
    /\ from = [r \in Requests |-> 1]
    /\ res = [r \in Requests |-> NoResults]
    /\ response = [r \in Requests |-> NoResponse]

InitLimiter ==
    /\ InitLimiterState
    /\ InitSummaryState
    /\ ai = Idle
    /\ chart = Unmounted
    /\ budget = 0
    /\ cfgOf \in DirectConfigs

\* the (identifier, endpoint) pairs that rateLimit is called directly for
DirectCallers == {<<"u1", "summary">>, <<"u2", "ai">>}

NextLimiter ==
    \/ Tick
    \/ \E c \in DirectCallers : Call(c[1], c[2])

SpecLimiter == InitLimiter /\ [][NextLimiter]_vars

----------------------------------------------------------------------------
(* Concurrent summary requests of one identity over an empty ledger *)

BurstRequests == {"r1", "r2"}

BurstParams ==
    [user : {"u1", NoUser}, period : {"all", "month"}, year : {<<>>}, month : {<<>>}]

BurstInstants == {CLEANUP_INTERVAL + 1}

\* time passes while handlers are suspended
BurstTick ==
    /\ \E t \in BurstInstants : t > clock /\ clock' = t
    /\ lastCall' = NoCall
    /\ UNCHANGED <<rateLimitStore, lastCleanup, cfgOf, gWinEnd, gCalls, gPassed, unswept>>
    /\ UNCHANGED <<sumVars, aiVars, uiVars>>

InitHandlers ==
    /\ InitLimiterState
    /\ InitSummaryState
    /\ ai = Idle
    /\ chart = Unmounted
    /\ budget = MaxBurst
    /\ cfgOf = [e \in Endpoints |-> RATE_LIMITS.heavy]

NextHandlers ==
    \/ BurstTick
    \/ \E r \in BurstRequests, p \in BurstParams : Receive(r, p)
    \/ \E r \in BurstRequests : Unauthorized(r)
    \/ \E r \in BurstRequests : Authorized(r)
    \/ \E r \in BurstRequests : QueriesResolved(r)
    \/ \E r \in BurstRequests : PeriodResolved(r)
    \/ \E r \in BurstRequests : MonthResolved(r)

SpecHandlers == InitHandlers /\ [][NextHandlers]_vars

----------------------------------------------------------------------------
(* One summary request over a ledger that is written before and after it *)

SummaryParams ==
    {p \in [user : {"u1"}, period : {"all", "month", "year"},
            year : {<<>>}, month : {<<>>, IntChars(MonthIndexOf(BaseMonth) + 2)}] :
        p.month # <<>> => p.period = "month"}

InitSummary ==
    /\ InitLimiterState
    /\ InitSummaryState
    /\ ai = Idle
    /\ chart = Unmounted
    /\ budget = 1
    /\ cfgOf = [e \in Endpoints |-> RATE_LIMITS.heavy]

Writes(cap, race) ==
    \/ \E k \in Kinds, a \in Amounts, d \in DateMonths : \E t \in TagsOf(k) :
           CreateEntry(k, "u1", a, t, d, cap, race)
    \/ \E k \in Kinds, i \in 1..cap, a \in Amounts, d \in DateMonths : \E t \in TagsOf(k) :
           UpdateEntry(k, "u1", i, a, t, d, race)
    \/ \E k \in Kinds, i \in 1..cap : DeleteEntry(k, "u1", i, race)

Handler(r) ==
    \/ Authorized(r)
    \/ QueriesResolved(r)
    \/ PeriodResolved(r)
    \/ MonthResolved(r)

NextSummary ==
    \/ \E p \in SummaryParams : Receive("r1", p)
    \/ Handler("r1")
    \/ Writes(MaxRows, FALSE)
    \/ NewMonth

SpecSummary == InitSummary /\ [][NextSummary]_vars

----------------------------------------------------------------------------
(* One summary request whose queries race with writes to the ledger *)

RaceParams == [user : {"u1"}, period : {"all", "month"}, year : {<<>>}, month : {<<>>}]

NextRace ==
    \/ \E p \in RaceParams : Receive("r1", p)
    \/ Handler("r1")
    \/ Writes(MaxRaceRows, TRUE)

SpecRace == InitSummary /\ [][NextRace]_vars

----------------------------------------------------------------------------
(* One summary request with arbitrary period, year and month query values *)

PeriodParams ==
    [user   : {"u1"},
     period : {"all", "month", "year", "week"},
     year   : {<<>>, <<"2", "0", "2", "4">>, <<"x">>},
     month  : {<<>>, <<"1", "2">>, <<"1", "3">>, <<"0">>, <<"x">>}]

NextPeriod ==
    \/ \E p \in PeriodParams : Receive("r1", p)
    \/ Handler("r1")
    \/ QueriesRejected("r1")
    \/ Writes(MaxRaceRows, FALSE)

SpecPeriod == InitSummary /\ [][NextPeriod]_vars

----------------------------------------------------------------------------
(* One summary request over entries that the create endpoints stored *)

\* parseFloat(amount) of a posted amount string: an optional sign and digits,
\* or NaN (<<>>)
PostedAmount(text) ==
    IF text # <<>> /\ Head(text) = "-"
    THEN (IF parseInt(Tail(text)) = <<>> THEN <<>> ELSE <<-(parseInt(Tail(text))[1])>>)
    ELSE parseInt(text)

AmountTexts == {<<"1">>, <<"0">>, <<"-", "1">>, <<"x">>}

\* new Date(date) of a posted date string: a calendar month, or an Invalid Date (<<>>)
PostedDates == {<<BaseMonth>>, <<BaseMonth - 1>>, <<>>}

\* POST: the form schema accepts any non-empty amount and date strings; the
\* create stores parseFloat(amount) and new Date(date).  A NaN amount or an
\* Invalid Date is refused by the store (500) and leaves the ledger as it was.
PostEntry(kind, user, amountText, tag, date, cap) ==
    /\ PostedAmount(amountText) # <<>>
    /\ date # <<>>
    /\ CreateEntry(kind, user, PostedAmount(amountText)[1], tag, date[1], cap, FALSE)

NextPosted ==
    \/ \E p \in RaceParams : Receive("r1", p)
    \/ Handler("r1")
    \/ \E k \in Kinds, a \in AmountTexts, d \in PostedDates : \E t \in TagsOf(k) :
           PostEntry(k, "u1", a, t, d, MaxRows)

SpecPosted == InitSummary /\ [][NextPosted]_vars

----------------------------------------------------------------------------
(* lib AI client: generateWithGroq, categorizeExpense, parseExpenseFromText, *)
(* generateFinancialInsights.  Strings that the code inspects are sequences  *)
(* of one-character strings; literal text is a single element.               *)

validCategoryKeys ==
    <<"foodDining", "transportation", "shopping", "entertainment", "billsUtilities",
      "healthcare", "travel", "education", "business", "other">>

RECURSIVE Pow10(_)
Pow10(n) == IF n = 0 THEN 1 ELSE 10 * Pow10(n - 1)

\* numbers parsed from text are kept as multiples of 1 / Scale
Scale == Pow10(MaxTextLen)

\* response.trim()
RECURSIVE Trim(_)
Trim(s) ==
    IF s = <<>> THEN s
    ELSE IF Head(s) = " " THEN Trim(Tail(s))
    ELSE IF s[Len(s)] = " " THEN Trim(SubSeq(s, 1, Len(s) - 1))
    ELSE s

\* what the awaited provider call came to
Failed == [ok |-> FALSE, text |-> <<>>]
Returned(content) == [ok |-> TRUE, text |-> content]

\* generateWithGroq: the trimmed content (or '') of the first choice, or
\* Error('Failed to generate response from Groq') on any failure of the call
generateWithGroq(outcome) ==
    IF outcome.ok THEN [threw |-> FALSE, value |-> Trim(outcome.text)]
    ELSE [threw |-> TRUE, value |-> <<"Failed to generate response from Groq">>]

\* response.match(/\d/): the first digit alone
FirstDigitOnly(s, i) ==
    IF \A j \in i..Len(s) : s[j] \notin Digits THEN <<>>
    ELSE <<s[CHOOSE j \in i..Len(s) : s[j] \in Digits /\ \A k \in i..(j - 1) : s[k] \notin Digits]>>

\* response.match(/\d+/): the first run of digits, <<>> when there is none
RECURSIVE FirstDigits(_, _)
FirstDigits(s, i) ==
    IF i > Len(s) THEN <<>>
    ELSE IF s[i] \in Digits THEN DigitRun(s, i)
    ELSE FirstDigits(s, i + 1)

\* validCategoryKeys[categoryIndex] || 'other'
KeyOrUndefined(index) ==
    IF index \in 0..(Len(validCategoryKeys) - 1) THEN validCategoryKeys[index + 1] ELSE "undefined"

KeyOrOther(index) ==
    IF index \in 0..(Len(validCategoryKeys) - 1) THEN validCategoryKeys[index + 1] ELSE "other"

\* categorizeExpense: the awaited generateAI is not inside a try block
categorizeExpenseCaught(outcome) ==
    LET reply == generateWithGroq(outcome)
    IN  IF reply.threw THEN [threw |-> FALSE, value |-> "other"]
        ELSE LET numberMatch   == FirstDigits(reply.value, 1)
                 categoryIndex == IF numberMatch # <<>> THEN ParseInt(numberMatch) - 1 ELSE 9
             IN  [threw |-> FALSE, value |-> KeyOrOther(categoryIndex)]

categorizeExpense(outcome) ==
    LET reply == generateWithGroq(outcome)
    IN  IF reply.threw THEN reply
        ELSE LET numberMatch   == FirstDigits(reply.value, 1)
                 categoryIndex == IF numberMatch # <<>> THEN ParseInt(numberMatch) - 1 ELSE 9
             IN  [threw |-> FALSE, value |-> KeyOrOther(categoryIndex)]

\* JavaScript values the replies and the results are made of.  Numbers are
\* integers counting 1 / Scale, so that the decimals a text can hold are exact.
Undefined == [k |-> "undefined"]
Null == [k |-> "null"]
NaN == [k |-> "NaN"]
Num(n) == [k |-> "num", n |-> n]
Str(s) == [k |-> "str", s |-> s]
Arr(items) == [k |-> "arr", items |-> items]
Obj(fields) == [k |-> "obj", fields |-> fields]

\* x || y
Falsy(x) ==
    \/ x.k \in {"undefined", "null", "NaN"}
    \/ x.k = "num" /\ x.n = 0
    \/ x.k = "str" /\ x.s = <<>>

Either(x, y) == IF Falsy(x) THEN y ELSE x

\* parsed.name: undefined unless the value is an object that has the property
Field(v, name) ==
    IF v.k = "obj" /\ name \in DOMAIN v.fields THEN v.fields[name] ELSE Undefined

\* the calendar days new Date() falls on, as <<year, month, day>>
Days == <<<<2025, 12, 31>>, <<2026, 1, 1>>>>

\* new Date().toISOString().split('T')[0]
ISODate(day) ==
    ZeroPadded(day[1], 4) \o <<"-">> \o ZeroPadded(day[2], 2) \o <<"-">> \o ZeroPadded(day[3], 2)

\* A reply that should hold JSON is a sequence of tokens: a code fence that
\* opens with ```json, a bare ``` fence, free text, a blank, or the text of
\* one JSON value.
FenceJson == "fence json"
Fence == "fence"
FreeText == "text"

\* the JSON texts the provider can return, and the values JSON.parse gives
JsonValues ==
    [null     |-> Null,
     expense  |-> Obj([amount |-> Num(5 * Scale), description |-> Str(<<"lunch">>),
                       categoryNumber |-> Num(2 * Scale), date |-> Str(<<"2025-01-02">>)]),
     insights |-> Obj([summary |-> Str(<<"fine">>), trends |-> Arr(<<Str(<<"t">>)>>),
                       recommendations |-> Arr(<<>>), alerts |-> Str(<<"none">>)]),
     coffee   |-> Obj([amount |-> Null, description |-> Str(<<"Coffee">>),
                       categoryNumber |-> Num(1 * Scale), date |-> Str(<<"2024-12-20">>)]),
     free     |-> Obj([amount |-> Num(0), description |-> Str(<<"free sample">>),
                       categoryNumber |-> Num(11 * Scale)]),
     bare     |-> Obj([amount |-> Str(<<"2", ".", "5">>)])]

\* The clean-up of the reply.  The fences are removed only when the reply
\* starts with one; a ```json fence met in a reply that starts with a bare
\* fence loses its ``` and leaves the word json.
RECURSIVE StripFences(_, _)
StripFences(s, jsonToo) ==
    IF s = <<>> THEN <<>>
    ELSE IF Head(s) = Fence THEN StripFences(Tail(s), jsonToo)
    ELSE IF Head(s) = FenceJson
         THEN (IF jsonToo THEN <<>> ELSE <<FreeText>>) \o StripFences(Tail(s), jsonToo)
    ELSE <<Head(s)>> \o StripFences(Tail(s), jsonToo)

CleanResponse(s) ==
    IF s # <<>> /\ Head(s) = FenceJson THEN StripFences(s, TRUE)
    ELSE IF s # <<>> /\ Head(s) = Fence THEN StripFences(s, FALSE)
    ELSE s

NotBlank(c) == c # " "

\* JSON.parse(cleanResponse) returns only if the text is exactly one JSON
\* value, blanks around it aside
Parses(clean) ==
    /\ Len(SelectSeq(clean, NotBlank)) = 1
    /\ SelectSeq(clean, NotBlank)[1] \in DOMAIN JsonValues

\* the try block up to and including JSON.parse and the first property read
\* (reading a property of null is a TypeError): the parsed value, or <<>>
\* when control went to the catch block
TryParse(outcome) ==
    LET reply  == generateWithGroq(outcome)
        clean  == IF reply.threw THEN <<>> ELSE CleanResponse(reply.value)
        parsed == JsonValues[SelectSeq(clean, NotBlank)[1]]
    IN  IF reply.threw \/ ~Parses(clean) \/ parsed = Null THEN <<>> ELSE <<parsed>>

\* text.match(/\$?(\d+\.?\d*)/): the capture of the first match, or <<>>
AmountCapture(text, i) ==
    LET whole == DigitRun(text, i)
        dot   == i + Len(whole) <= Len(text) /\ text[i + Len(whole)] = "."
        frac  == IF dot THEN DigitRun(text, i + Len(whole) + 1) ELSE <<>>
    IN  [whole |-> whole, frac |-> frac]

RECURSIVE AmountMatch(_, _)
AmountMatch(text, i) ==
    IF i > Len(text) THEN <<>>
    ELSE IF text[i] \in Digits THEN <<AmountCapture(text, i)>>
    ELSE IF text[i] = "$" /\ i + 1 <= Len(text) /\ text[i + 1] \in Digits
         THEN <<AmountCapture(text, i + 1)>>
    ELSE AmountMatch(text, i + 1)

\* parseFloat of a capture of /\d+\.?\d*/
ParseFloatWhole(m) == ParseInt(m.whole) * Scale

ParseFloat(m) ==
    ParseInt(m.whole) * Scale + (ParseInt(m.frac) * Scale) \div Pow10(Len(m.frac))

\* parseFloat / Number of a value: of a string, its leading unsigned decimal
ToNumber(v) ==
    IF v.k = "num" THEN v
    ELSE IF v.k = "str" /\ v.s # <<>> /\ v.s[1] \in Digits THEN Num(ParseFloat(AmountCapture(v.s, 1)))
    ELSE NaN

\* the catch block of parseExpenseFromText
ParseFallback(text, day) ==
    LET amountMatch == AmountMatch(text, 1)
    IN  [amount      |-> IF amountMatch # <<>> THEN Num(ParseFloat(amountMatch[1])) ELSE Null,
         description |-> Str(text),
         category    |-> Null,
         date        |-> Str(ISODate(day))]

\* validCategoryKeys[(parsed.categoryNumber || 10) - 1] || 'other'
CategoryOfNumber(v) ==
    LET number == ToNumber(Either(v, Num(10 * Scale)))
    IN  IF number.k = "num" /\ number.n % Scale = 0
        THEN KeyOrOther(number.n \div Scale - 1) ELSE "other"

\* parseExpenseFromText: try { await generateAI; clean; JSON.parse; map } catch { fallback }
parseExpenseFromText(text, outcome, day) ==
    LET parsed == TryParse(outcome)
    IN  IF parsed = <<>> THEN [threw |-> FALSE, value |-> ParseFallback(text, day)]
        ELSE [threw |-> FALSE,
              value |-> [amount      |-> IF Falsy(Field(parsed[1], "amount")) THEN Null
                                         ELSE ToNumber(Field(parsed[1], "amount")),
                         description |-> Either(Field(parsed[1], "description"), Str(text)),
                         category    |-> Str(<<CategoryOfNumber(Field(parsed[1], "categoryNumber"))>>),
                         date        |-> Either(Field(parsed[1], "date"), Str(ISODate(day)))]]

\* the nearest integer to num / den for num >= 0, den > 0; a tie takes the larger
RoundDiv(num, den) == num \div den + (IF 2 * (num % den) >= den THEN 1 ELSE 0)

Abs(x) == IF x < 0 THEN -x ELSE x

\* (num / den).toFixed(f): sign, integer part, and f decimals
ToFixedTruncated(num, den, f) ==
    LET n == (Abs(num) * Pow10(f)) \div den
    IN  (IF num < 0 THEN <<"-">> ELSE <<>>)
        \o IntChars(n \div Pow10(f)) \o <<".">> \o ZeroPadded(n % Pow10(f), f)

ToFixed(num, den, f) ==
    LET n == RoundDiv(Abs(num) * Pow10(f), den)
    IN  (IF num < 0 THEN <<"-">> ELSE <<>>)
        \o IntChars(n \div Pow10(f)) \o <<".">> \o ZeroPadded(n % Pow10(f), f)

\* parseFloat of '0' or of a toFixed string
ParseSigned(s) ==
    IF s[1] = "-" THEN -ParseFloat(AmountCapture(s, 2)) ELSE ParseFloat(AmountCapture(s, 1))

\* the shortest decimals of frac / 10^width (no trailing zeros)
RECURSIVE FractionChars(_, _)
FractionChars(frac, width) ==
    IF frac = 0 THEN <<>>
    ELSE <<DigitChar(frac \div Pow10(width - 1))>> \o FractionChars((frac % Pow10(width - 1)), width - 1)

\* String(x) of a non-negative number with finitely many decimals
NumberToString(x) ==
    IntChars(x \div Scale)
    \o (IF x % Scale = 0 THEN <<>> ELSE <<".">> \o FractionChars(x % Scale, MaxTextLen))

\* Amounts of money are integers counting thousandths.
Mills == 1000

\* expensesByCategory.sort((a, b) => b.total - a.total), which is stable and
\* sorts the caller's array in place
RECURSIVE SortByTotal(_)
SortByTotal(list) ==
    IF list = <<>> THEN <<>>
    ELSE LET top == CHOOSE i \in 1..Len(list) :
                        /\ \A j \in 1..Len(list) : list[j].total <= list[i].total
                        /\ \A j \in 1..(i - 1) : list[j].total < list[i].total
         IN  <<list[top]>> \o SortByTotal([j \in 1..(Len(list) - 1) |->
                                              IF j < top THEN list[j] ELSE list[j + 1]])

\* savingsRate and monthlyChange: a percentage with one decimal, or '0'
savingsRate(data) ==
    IF data.totalIncome > 0
    THEN ToFixed((data.totalIncome - data.totalExpenses) * 100, data.totalIncome, 1)
    ELSE <<"0">>

monthlyChange(data) ==
    IF data.previousMonthTotal > 0
    THEN ToFixed((data.currentMonthTotal - data.previousMonthTotal) * 100, data.previousMonthTotal, 1)
    ELSE <<"0">>

\* the catch block of generateFinancialInsights
InsightsFallback(data) ==
    LET change == ParseSigned(monthlyChange(data))
        sorted == SortByTotal(data.expensesByCategory)
        top    == IF sorted # <<>> /\ sorted[1].category # "" THEN sorted[1].category ELSE "Unknown"
    IN  [summary |-> Str(
             <<"You've spent $">> \o ToFixed(data.totalExpenses, Mills, 2)
             \o <<" with a savings rate of ">> \o savingsRate(data) \o <<"%. ">>
             \o (IF change > 0
                 THEN <<"Your spending increased by ">> \o monthlyChange(data) \o <<"% this month.">>
                 ELSE <<"Your spending decreased by ">> \o NumberToString(Abs(change))
                      \o <<"% this month.">>)),
         trends |->
             << Str(<<"Top spending category is ", top>>),
                IF change > 20 * Scale THEN Str(<<"Significant increase in spending this month">>)
                ELSE Str(<<"Spending is relatively stable">>) >>,
         recommendations |->
             << Str(<<"Review your top spending categories for optimization opportunities">>),
                Str(<<"Set monthly budgets for each category">>),
                Str(<<"Track expenses regularly to stay on target">>) >>,
         alerts |->
             IF change > 30 * Scale
             THEN << Str(<<"Spending increased significantly this month - review for unusual expenses">>) >>
             ELSE <<>>]

\* Array.isArray(x) ? x : []
ArrayOrEmpty(v) == IF v.k = "arr" THEN v.items ELSE <<>>

\* generateFinancialInsights: the metrics and the sort, then
\* try { await generateAI; clean; JSON.parse; map } catch { fallback }
generateFinancialInsights(data, outcome) ==
    LET parsed == TryParse(outcome)
    IN  [threw |-> FALSE,
         sortedInput |-> SortByTotal(data.expensesByCategory),
         value |->
             IF parsed = <<>> THEN InsightsFallback(data)
             ELSE [summary |-> Either(Field(parsed[1], "summary"), Str(<<"No summary available">>)),
                   trends          |-> ArrayOrEmpty(Field(parsed[1], "trends")),
                   recommendations |-> ArrayOrEmpty(Field(parsed[1], "recommendations")),
                   alerts          |-> ArrayOrEmpty(Field(parsed[1], "alerts"))]]

----------------------------------------------------------------------------
(* Calls of the three adapter functions.  A call runs to its await of the   *)
(* provider; the provider then fails or returns a content, and the rest of  *)
(* the function runs.  The day may change while the call is suspended.      *)

Locales == {"en", "pt", "de"}

Descriptions == {"coffee"}

\* sequences over S of length at most n
RECURSIVE UpTo(_, _)
UpTo(S, n) ==
    IF n = 0 THEN {<<>>} ELSE UpTo(S, n - 1) \cup {Append(s, c) : s \in UpTo(S, n - 1), c \in S}

TextChars == {"$", "2", "5", ".", "c"}
Texts == UpTo(TextChars, MaxTextLen)

ReplyChars == {"1", "0", "7", "x", " "}
CategoryReplies == UpTo(ReplyChars, MaxReplyLen)

JsonReplies(texts) == UpTo({FenceJson, Fence, FreeText, " "} \cup texts, MaxReplyLen)

CategoryRows ==
    {<<>>,
     <<[category |-> "other", total |-> 1 * Mills, count |-> 1],
       [category |-> "travel", total |-> 2 * Mills, count |-> 1]>>,
     <<[category |-> "", total |-> 2 * Mills, count |-> 2],
       [category |-> "travel", total |-> 2 * Mills, count |-> 1]>>}

\* current and previous month totals, in thousandths
MonthTotals == {<<0, 0>>, <<1300 * Mills, 1000 * Mills>>, <<1301 * Mills, 1000 * Mills>>,
                <<900 * Mills, 1000 * Mills>>, <<1000 * Mills, 0>>, <<13004, 10000>>}

InsightInputs ==
    {[totalExpenses |-> e, totalIncome |-> i, expensesByCategory |-> c,
      currentMonthTotal |-> m[1], previousMonthTotal |-> m[2]] :
        e \in {0, 1500 * Mills, 12346, 999996}, i \in {0, 2000 * Mills},
        c \in CategoryRows, m \in MonthTotals}

RepliesOf(op) ==
    CASE op = "categorize" -> CategoryReplies
      [] op = "parse"      -> JsonReplies({"null", "expense"})
      [] op = "insights"   -> JsonReplies({"null", "insights"})

\* who called the adapter function: a route handler, or nobody in particular
Direct == [route |-> "none"]

SuspendFor(op, input, day, caller) ==
    /\ ai' = [pc |-> "awaiting", op |-> op, input |-> input, day |-> day, caller |-> caller]
    /\ UNCHANGED sumVars

Suspend(op, input, day) ==
    /\ ai.pc = "idle"
    /\ SuspendFor(op, input, day, Direct)
    /\ UNCHANGED <<limVars, uiVars>>

CallCategorize(description, locale) ==
    \E day \in 1..Len(Days) : Suspend("categorize", [description |-> description, locale |-> locale], day)

CallParse(text) ==
    \E day \in 1..Len(Days) : Suspend("parse", [text |-> text, locale |-> "en"], day)

CallInsights(data) ==
    \E day \in 1..Len(Days) : Suspend("insights", [data |-> data, locale |-> "en"], day)

Midnight ==
    /\ ai.pc = "awaiting"
    /\ ai.day < Len(Days)
    /\ ai' = [ai EXCEPT !.day = @ + 1]
    /\ UNCHANGED <<limVars, sumVars, uiVars>>

Resume(outcome) ==
    LET result == CASE ai.op = "categorize" -> categorizeExpense(outcome)
                    [] ai.op = "parse"      -> parseExpenseFromText(ai.input.text, outcome, Days[ai.day])
                    [] ai.op = "insights"   -> generateFinancialInsights(ai.input.data, outcome)
    IN  /\ ai.pc = "awaiting"
        /\ ai' = [pc |-> "settled", op |-> ai.op, input |-> ai.input, day |-> ai.day,
                  caller |-> ai.caller, outcome |-> outcome, result |-> result]
        /\ UNCHANGED <<limVars, sumVars, uiVars>>

ProviderFails == Resume(Failed)

ProviderReturns(content) ==
    /\ ai.pc = "awaiting"
    /\ content \in RepliesOf(ai.op)
    /\ Resume(Returned(content))

InitAI ==
    /\ InitLimiterState
    /\ InitSummaryState
    /\ budget = 0
    /\ cfgOf = [e \in Endpoints |-> RATE_LIMITS.heavy]
    /\ ai = Idle
    /\ chart = Unmounted

NextAI ==
    \/ \E d \in Descriptions, l \in Locales : CallCategorize(d, l)
    \/ \E t \in Texts : CallParse(t)
    \/ \E data \in InsightInputs : CallInsights(data)
    \/ Midnight
    \/ ProviderFails
    \/ \E content \in UNION {RepliesOf(op) : op \in {"categorize", "parse", "insights"}} :
           ProviderReturns(content)

SpecAI == InitAI /\ [][NextAI]_vars

----------------------------------------------------------------------------
(* POST /api/ai/categorize, /api/ai/parse-expense and /api/ai/insights.  A   *)
(* handler runs from auth() to the adapter function's await of the          *)
(* provider, or to an early response; when the adapter function settles it  *)
(* answers.                                                                 *)

RouteUsers == {"u1", NoUser}
RouteDescriptions == {"", "coffee"}
RouteTexts == {<<>>, <<"$", "2", "5">>}
RouteReplies == {<<"7">>, <<"expense">>, <<"text">>}

Answer(route, user, check, status, headers) ==
    [pc |-> "answered", caller |-> [route |-> route, user |-> user, check |-> check],
     status |-> status, headers |-> headers]

\* categorize: 401 without a session, 400 without a description, else
\* categorizeExpense is called; rateLimit is not called
PostCategorize(user, description, locale) ==
    /\ ai.pc \in {"idle", "answered"}
    /\ IF user = NoUser
       THEN ai' = Answer("categorize", user, "none", 401, <<>>) /\ UNCHANGED sumVars
       ELSE IF description = ""
       THEN ai' = Answer("categorize", user, "none", 400, <<>>) /\ UNCHANGED sumVars
       ELSE \E day \in 1..Len(Days) :
                SuspendFor("categorize", [description |-> description, locale |-> locale], day,
                           [route |-> "categorize", user |-> user, check |-> "none"])
    /\ UNCHANGED <<limVars, uiVars>>

\* parse-expense: 401 without a session, then rateLimit(id, 'ai-parse', ai):
\* 429 when denied, 400 without a text, else parseExpenseFromText is called
PostParseExpense(user, text) ==
    /\ ai.pc \in {"idle", "answered"}
    /\ IF user = NoUser
       THEN /\ ai' = Answer("parse-expense", user, "none", 401, <<>>)
            /\ UNCHANGED <<rateLimitStore, lastCleanup, unswept, sumVars>>
       ELSE LET rl == rateLimit(user, "ai-parse", RATE_LIMITS.ai, rateLimitStore, lastCleanup, clock)
            IN  /\ rateLimitStore' = rl.store
                /\ lastCleanup' = rl.lastCleanup
                /\ Unswept(user, "ai-parse", RATE_LIMITS.ai)
                /\ IF ~rl.result.success
                   THEN /\ ai' = Answer("parse-expense", user, "denied", 429,
                                        <<getRateLimitHeaders(rl.result, RATE_LIMITS.ai)>>)
                        /\ UNCHANGED sumVars
                   ELSE IF text = <<>>
                   THEN /\ ai' = Answer("parse-expense", user, "allowed", 400, <<>>)
                        /\ UNCHANGED sumVars
                   ELSE \E day \in 1..Len(Days) :
                            SuspendFor("parse", [text |-> text, locale |-> "en"], day,
                                       [route |-> "parse-expense", user |-> user, check |-> "allowed"])
    /\ UNCHANGED <<clock, cfgOf, lastCall, gWinEnd, gCalls, gPassed, uiVars>>

\* insights: 401 without a session, else generateFinancialInsights is called
\* with figures aggregated from the owner's entries
RouteInsightData ==
    {[totalExpenses |-> 1500 * Mills, totalIncome |-> 2000 * Mills,
      expensesByCategory |-> <<[category |-> "travel", total |-> 2 * Mills, count |-> 1]>>,
      currentMonthTotal |-> 1301 * Mills, previousMonthTotal |-> 1000 * Mills]}

PostInsights(user, data) ==
    /\ ai.pc \in {"idle", "answered"}
    /\ IF user = NoUser
       THEN ai' = Answer("insights", user, "none", 401, <<>>) /\ UNCHANGED sumVars
       ELSE \E day \in 1..Len(Days) :
                SuspendFor("insights", [data |-> data, locale |-> "en"], day,
                           [route |-> "insights", user |-> user, check |-> "none"])
    /\ UNCHANGED <<limVars, uiVars>>

\* the error of each handler's catch block
RouteError ==
    [route \in {"categorize", "parse-expense", "insights"} |->
        CASE route = "categorize"    -> "Failed to categorize expense"
          [] route = "parse-expense" -> "Failed to parse expense"
          [] route = "insights"      -> "Failed to generate insights"]

\* the adapter function settled: NextResponse.json(result), or the catch block's 500
RouteAnswers ==
    /\ ai.pc = "settled"
    /\ ai.caller.route # "none"
    /\ ai' = [pc |-> "answered", caller |-> ai.caller,
              status |-> IF ai.result.threw THEN 500 ELSE 200, headers |-> <<>>,
              error |-> IF ai.result.threw THEN RouteError[ai.caller.route] ELSE "",
              op |-> ai.op, input |-> ai.input, outcome |-> ai.outcome, result |-> ai.result]
    /\ UNCHANGED <<limVars, sumVars, uiVars>>

NextRoutes ==
    \/ \E u \in RouteUsers, d \in RouteDescriptions, l \in Locales : PostCategorize(u, d, l)
    \/ \E u \in RouteUsers, t \in RouteTexts : PostParseExpense(u, t)
    \/ \E u \in RouteUsers, data \in RouteInsightData : PostInsights(u, data)
    \/ ProviderFails
    \/ \E content \in RouteReplies : ProviderReturns(content)
    \/ RouteAnswers

SpecRoutes == InitAI /\ [][NextRoutes]_vars

----------------------------------------------------------------------------
(* The governed endpoints together: GET /api/summary, POST                  *)
(* /api/ai/parse-expense and the list handlers GET /api/expenses,            *)
(* /api/incomes and /api/invoices, called with and without a session.        *)

\* the endpoint name each list handler passes to rateLimit
ListEndpoint == [expense |-> "expenses", income |-> "incomes", invoice |-> "invoices"]

\* the list handler with the check moved before the session test
GetEntriesCheckFirst(kind, user) ==
    LET rl == rateLimit(user, ListEndpoint[kind], RATE_LIMITS.standard,
                        rateLimitStore, lastCleanup, clock)
    IN  /\ ai.pc \in {"idle", "answered"}
        /\ user # NoUser => rl.store[Key(user, ListEndpoint[kind])].count <= MaxGoverned
        /\ rateLimitStore' = rl.store
        /\ lastCleanup' = rl.lastCleanup
        /\ Unswept(user, ListEndpoint[kind], RATE_LIMITS.standard)
        /\ ai' = [pc |-> "answered",
                  caller |-> [route |-> ListEndpoint[kind], user |-> user, check |-> "allowed"],
                  status |-> IF user = NoUser THEN 401 ELSE 200, headers |-> <<>>,
                  total |-> Cardinality(OwnedBy(db[kind], user))]
        /\ UNCHANGED <<clock, cfgOf, lastCall, gWinEnd, gCalls, gPassed, uiVars>>
        /\ UNCHANGED sumVars

\* GET list of a kind: 401 without a session, then rateLimit(id, endpoint,
\* standard): 429 when denied, else the owner's rows are counted and listed
GetEntries(kind, user) ==
    /\ ai.pc \in {"idle", "answered"}
    /\ IF user = NoUser
       THEN /\ ai' = Answer(ListEndpoint[kind], user, "none", 401, <<>>)
            /\ UNCHANGED <<rateLimitStore, lastCleanup, unswept>>
       ELSE LET rl == rateLimit(user, ListEndpoint[kind], RATE_LIMITS.standard,
                               rateLimitStore, lastCleanup, clock)
            IN  /\ rl.store[Key(user, ListEndpoint[kind])].count <= MaxGoverned
                /\ rateLimitStore' = rl.store
                /\ lastCleanup' = rl.lastCleanup
                /\ Unswept(user, ListEndpoint[kind], RATE_LIMITS.standard)
                /\ IF ~rl.result.success
                   THEN ai' = Answer(ListEndpoint[kind], user, "denied", 429,
                                     <<getRateLimitHeaders(rl.result, RATE_LIMITS.standard)>>)
                   ELSE ai' = [pc |-> "answered",
                               caller |-> [route |-> ListEndpoint[kind], user |-> user,
                                           check |-> "allowed"],
                               status |-> 200, headers |-> <<>>,
                               total |-> Cardinality(OwnedBy(db[kind], user))]
    /\ UNCHANGED <<clock, cfgOf, lastCall, gWinEnd, gCalls, gPassed, uiVars>>
    /\ UNCHANGED sumVars

InitGoverned ==
    /\ InitLimiterState
    /\ InitSummaryState
    /\ ai = Idle
    /\ chart = Unmounted
    /\ budget = MaxGoverned
    /\ cfgOf = [e \in Endpoints |-> RATE_LIMITS.heavy]

NextGoverned ==
    \/ BurstTick
    \/ \E p \in BurstParams : Receive("r1", p)
    \/ Unauthorized("r1")
    \/ Handler("r1")
    \/ \E u \in RouteUsers, t \in RouteTexts :
           /\ Key(u, "ai-parse") \in DOMAIN rateLimitStore =>
                  rateLimitStore[Key(u, "ai-parse")].count < MaxGoverned
           /\ PostParseExpense(u, t)
    \/ \E k \in Kinds, u \in RouteUsers : GetEntries(k, u)
    \/ ProviderFails
    \/ \E content \in RouteReplies : ProviderReturns(content)
    \/ RouteAnswers

SpecGoverned == InitGoverned /\ [][NextGoverned]_vars

----------------------------------------------------------------------------
(* rateLimit called for pairs of arbitrary strings, within one window *)

\* identifiers are user ids or the x-forwarded-for header of a register
\* request, which is any string
KeyPairs == {<<"a:b", "c">>, <<"a", "b:c">>, <<"u1", "register">>, <<"u2", "register">>}

KeyConfig == [maxRequests |-> MaxRequestsBound, windowSeconds |-> RATE_LIMITS.auth.windowSeconds]

\* calls made so far for each pair
Made == IF lastCall.valid THEN lastCall.made ELSE [pair \in KeyPairs |-> 0]

CallPair(pair) ==
    /\ Made[pair] < MaxCallsPerWindow
    /\ LET rl == rateLimit(pair[1], pair[2], KeyConfig, rateLimitStore, lastCleanup, clock)
       IN  /\ rateLimitStore' = rl.store
           /\ lastCleanup' = rl.lastCleanup
           /\ Unswept(pair[1], pair[2], KeyConfig)
           /\ lastCall' = [valid |-> TRUE, pair |-> pair, result |-> rl.result,
                           made |-> [Made EXCEPT ![pair] = @ + 1]]
    /\ UNCHANGED <<clock, cfgOf, gWinEnd, gCalls, gPassed>>
    /\ UNCHANGED <<sumVars, aiVars, uiVars>>

NextKeys == \E pair \in KeyPairs : CallPair(pair)

SpecKeys == InitAI /\ [][NextKeys]_vars

----------------------------------------------------------------------------
(* parseExpenseFromText when the provider returns a JSON object *)

ExpenseObjects == {"expense", "coffee", "free", "bare"}

\* the object alone, or inside a code fence
ObjectReplies ==
    UNION {{<<j>>, <<FenceJson, j, Fence>>, <<Fence, j, Fence>>, <<" ", j>>} : j \in ExpenseObjects}

ProviderReturnsObject(content) ==
    /\ ai.pc = "awaiting"
    /\ Resume(Returned(content))

NextParse ==
    \/ \E t \in Texts : CallParse(t)
    \/ Midnight
    \/ \E content \in ObjectReplies : ProviderReturnsObject(content)

SpecParse == InitAI /\ [][NextParse]_vars

----------------------------------------------------------------------------
(* components/summary-chart: the SummaryChart component.  Its state is the   *)
(* useState values period, loading, data and error, the period of the last  *)
(* committed fetchSummaryData callback, abortControllerRef.current (0 for   *)
(* null, else the number of the request the controller belongs to), the     *)
(* requests issued so far and the keys of the fresh summaryCache entries.   *)

ChartPeriods == {"all", "month", "year"}

\* new Error("Failed to fetch summary data"), or the message of the error fetch rejected with
FetchErrors == [status |-> "Failed to fetch summary data", network |-> "Failed to fetch"]

\* the request that controller c belongs to is still awaited
Awaited(reqs, c) == c # 0 /\ reqs[c].pos # "done"

\* abortControllerRef.current.abort(): the awaited fetch or body read will reject
Abort(reqs, c) == IF Awaited(reqs, c) THEN [reqs EXCEPT ![c].aborted = TRUE] ELSE reqs

\* fetchSummaryData(skipCache) up to its first await: a fresh cache entry is
\* shown, else the pending request is aborted and a new one is issued
fetchSummaryData(ch, skipCache) ==
    IF ~skipCache /\ ch.period \in ch.cache
    THEN [ch EXCEPT !.data = <<ch.period>>, !.loading = FALSE]
    ELSE [ch EXCEPT !.reqs = Append(Abort(ch.reqs, ch.controller),
                                    [period |-> ch.period, pos |-> "fetch", aborted |-> FALSE]),
                    !.controller = Len(ch.reqs) + 1,
                    !.loading = TRUE,
                    !.error = <<>>]

\* finally { setLoading(false) }: runs on every way out of the try block
Finally(ch, r) == [ch EXCEPT !.loading = FALSE, !.reqs[r].pos = "done"]

\* the component is rendered for the first time, with the default period
Mount ==
    /\ chart = Unmounted
    /\ chart' = [mounted |-> TRUE, period |-> "all", committed |-> "none",
                 loading |-> TRUE, data |-> <<>>, error |-> <<>>,
                 controller |-> 0, reqs |-> <<>>, cache |-> {}]
    /\ UNCHANGED <<limVars, sumVars, aiVars>>

\* handlePeriodChange(newPeriod): setPeriod
handlePeriodChange(newPeriod) ==
    /\ chart.mounted
    /\ newPeriod # chart.period
    /\ chart' = [chart EXCEPT !.period = newPeriod]
    /\ UNCHANGED <<limVars, sumVars, aiVars>>

\* the effect of a render whose fetchSummaryData is new: the clean-up of the
\* previous effect aborts the pending request, then fetchSummaryData() runs
RunEffect ==
    /\ chart.mounted
    /\ chart.period # chart.committed
    /\ chart.period \in chart.cache \/ Len(chart.reqs) < MaxFetches
    /\ chart' = [fetchSummaryData([chart EXCEPT !.reqs = Abort(chart.reqs, chart.controller)], FALSE)
                    EXCEPT !.committed = chart.period]
    /\ UNCHANGED <<limVars, sumVars, aiVars>>

\* the retry button shown with an error: fetchSummaryData(true)
Retry ==
    /\ chart.mounted
    /\ ~chart.loading
    /\ chart.error # <<>>
    /\ Len(chart.reqs) < MaxFetches
    /\ chart' = fetchSummaryData(chart, TRUE)
    /\ UNCHANGED <<limVars, sumVars, aiVars>>

\* await fetch(...) settles for a request that was not aborted: a response
\* that is ok is read next, any other outcome is thrown and caught
FetchSettles(r, outcome) ==
    /\ chart.mounted
    /\ r \in 1..Len(chart.reqs)
    /\ chart.reqs[r].pos = "fetch"
    /\ ~chart.reqs[r].aborted
    /\ IF outcome = "ok"
       THEN chart' = [chart EXCEPT !.reqs[r].pos = "json"]
       ELSE chart' = Finally([chart EXCEPT !.error = <<FetchErrors[outcome]>>], r)
    /\ UNCHANGED <<limVars, sumVars, aiVars>>

\* await response.json() resolves: the cache is updated and the data is set
BodyRead(r) ==
    /\ chart.mounted
    /\ r \in 1..Len(chart.reqs)
    /\ chart.reqs[r].pos = "json"
    /\ ~chart.reqs[r].aborted
    /\ chart' = Finally([chart EXCEPT !.cache = @ \cup {chart.reqs[r].period},
                                      !.data = <<chart.reqs[r].period>>], r)
    /\ UNCHANGED <<limVars, sumVars, aiVars>>

\* the await of an aborted request rejects with an AbortError: the catch
\* block returns without an update, and the finally block runs
AbortDelivered(r) ==
    /\ chart.mounted
    /\ r \in 1..Len(chart.reqs)
    /\ chart.reqs[r].pos # "done"
    /\ chart.reqs[r].aborted
    /\ chart' = Finally(chart, r)
    /\ UNCHANGED <<limVars, sumVars, aiVars>>

\* a cache entry becomes older than CACHE_DURATION
CacheExpires(key) ==
    /\ chart.mounted
    /\ key \in chart.cache
    /\ chart' = [chart EXCEPT !.cache = @ \ {key}]
    /\ UNCHANGED <<limVars, sumVars, aiVars>>

NextChart ==
    \/ Mount
    \/ \E p \in ChartPeriods : handlePeriodChange(p)
    \/ RunEffect
    \/ Retry
    \/ \E r \in 1..MaxFetches, outcome \in {"ok", "status", "network"} : FetchSettles(r, outcome)
    \/ \E r \in 1..MaxFetches : BodyRead(r)
    \/ \E r \in 1..MaxFetches : AbortDelivered(r)
    \/ \E key \in ChartPeriods : CacheExpires(key)

SpecChart == InitAI /\ [][NextChart]_vars

----------------------------------------------------------------------------
(* Rate Governor claims *)

\* C1: of the rateLimit calls made for a key inside one window the first N
\* (N = maxRequests) succeed with remaining N-1, ..., 0 and every later one
\* is denied with remaining 0; the first call after the window has elapsed
\* (now later than the window's end) succeeds with remaining N-1.  The call
\* made at the very instant the window ends is the subject of C10.
C1_WindowQuota ==
    lastCall.valid =>
        LET N == lastCall.config.maxRequests
            n == lastCall.nth
        IN  /\ lastCall.case = "inside" =>
                /\ lastCall.result.success = (n <= N)
                /\ lastCall.result.remaining = (IF n <= N THEN N - n ELSE 0)
            /\ lastCall.case \in {"first", "after"} =>
                /\ lastCall.result.success
                /\ lastCall.result.remaining = N - 1

\* a key whose window saw more than N calls is allowed again after the window
C1_Witness ==
    /\ lastCall.valid
    /\ lastCall.case = "after"
    /\ lastCall.before > lastCall.config.maxRequests
    /\ lastCall.result.success
    /\ lastCall.result.remaining = lastCall.config.maxRequests - 1

\* C2: summary requests of one identity whose handlers interleave at every
\* await never lose an increment of the key's counter: the number of requests
\* that pass the rateLimit check inside one window never exceeds maxRequests.
C2_NoLostIncrement ==
    \A k \in Keys :
        /\ gPassed[k] <= RATE_LIMITS.heavy.maxRequests
        /\ (k \in DOMAIN rateLimitStore /\ rateLimitStore[k].resetTime = gWinEnd[k]) =>
               rateLimitStore[k].count = gPassed[k]

\* the quota of a window is used up and a request is denied while the handler
\* of another request of the same identity is suspended past its own check
C2_Witness ==
    \E r1, r2 \in Requests :
        /\ r1 # r2
        /\ response[r1].status = 429
        /\ pc[r2] \in Waiting
        /\ req[r1].user = req[r2].user
        /\ gPassed[Key(req[r1].user, "summary")] = RATE_LIMITS.heavy.maxRequests

C22_SweepOnlyExpired ==
    [][/\ \A k \in DOMAIN rateLimitStore :
              /\ k \notin DOMAIN rateLimitStore' => rateLimitStore[k].resetTime < clock
              /\ rateLimitStore[k].resetTime >= clock' =>
                    /\ k \in DOMAIN rateLimitStore'
                    /\ rateLimitStore'[k].resetTime = rateLimitStore[k].resetTime
                    /\ rateLimitStore'[k].count >= rateLimitStore[k].count
       /\ lastCleanup' # lastCleanup =>
              /\ lastCall'.valid
              /\ lastCleanup' = clock
              /\ lastCleanup' - lastCleanup >= CLEANUP_INTERVAL
       /\ rateLimitStore' # rateLimitStore => lastCall'.valid]_vars

\* a call has swept an expired entry away and counted itself in an open window
C22_Witness ==
    /\ lastCall.valid
    /\ clock > 0
    /\ lastCleanup = clock
    /\ \E k \in Keys : gWinEnd[k] >= 0 /\ k \notin DOMAIN rateLimitStore
    /\ \E j \in DOMAIN rateLimitStore :
           rateLimitStore[j].resetTime > clock /\ rateLimitStore[j].count >= 2

\* C23: a rateLimit call made at least CLEANUP_INTERVAL after the previous
\* sweep removes every entry whose resetTime has passed, except that the
\* entry of the key it is called for is replaced by a new window.  As time
\* advances without bound, every call made later than lastCleanup +
\* CLEANUP_INTERVAL is such a call.
C23_SweepRemovesExpired ==
    [][(lastCall'.valid /\ clock - lastCleanup >= CLEANUP_INTERVAL) =>
          \A k \in DOMAIN rateLimitStore :
              rateLimitStore[k].resetTime < clock =>
                  \/ k \notin DOMAIN rateLimitStore'
                  \/ /\ k = lastCall'.key
                     /\ rateLimitStore'[k].count = 1
                     /\ rateLimitStore'[k].resetTime > clock]_vars

\* a call for one key has removed the expired entry of another key
C23_Witness ==
    /\ lastCall.valid
    /\ lastCleanup = clock
    /\ \E k \in Keys :
           /\ k # lastCall.key
           /\ gWinEnd[k] >= 0
           /\ gWinEnd[k] < clock
           /\ k \notin DOMAIN rateLimitStore

\* C27: the results of the rateLimit calls are those of the same limiter with
\* the sweep disabled, given the same calls at the same times; the two stores
\* differ only in entries whose resetTime has passed.
C27_SweepUnobservable ==
    /\ lastCall.valid => lastCall.result = unswept.result
    /\ \A k \in DOMAIN unswept.store :
           IF k \in DOMAIN rateLimitStore
           THEN rateLimitStore[k] = unswept.store[k]
           ELSE unswept.store[k].resetTime < clock
    /\ DOMAIN rateLimitStore \subseteq DOMAIN unswept.store

\* a key is denied in an open window after a sweep has removed the expired
\* entry of another key, which the unswept store still holds
C27_Witness ==
    /\ lastCall.valid
    /\ ~lastCall.result.success
    /\ \E k \in DOMAIN unswept.store : k \notin DOMAIN rateLimitStore

\* C26: a denied result has 1 <= resetIn <= windowSeconds and an allowed
\* result has 0 <= resetIn <= windowSeconds.
C26_RetryHintUsable ==
    lastCall.valid =>
        /\ lastCall.result.resetIn <= lastCall.config.windowSeconds
        /\ lastCall.result.resetIn >= (IF lastCall.result.success THEN 0 ELSE 1)

----------------------------------------------------------------------------
(* Summary report claims *)

Answered(r) == response[r].status = 200

RECURSIVE SumOver(_, _)
SumOver(f, field) ==
    IF f = <<>> THEN 0 ELSE Head(f)[field] + SumOver(Tail(f), field)

\* amount of the breakdown rows with the given key
AmountOfKey(f, key) ==
    SumOver(SelectSeq(f, LAMBDA row : row.key = key), "amount")

\* ledger rows of the report's owner created inside [gte, lte]
CreatedIn(kind, user, gte, lte) ==
    {row \in db[kind] : row.userId = user /\ gte <= row.createdAt /\ row.createdAt <= lte}

Paid(rows) == {row \in rows : row.tag = "PAID"}

\* C6: in every summary report netIncome is the income total plus the amount
\* of the invoices with status PAID only, minus the expense total, for
\* totals, thisMonth and selectedPeriod alike.
C6_NetIncomePaidOnly ==
    \A r \in Requests : Answered(r) =>
        LET body == response[r].body
            user == req[r].user
        IN  /\ body.totals.netIncome =
                   body.totals.incomes.amount
                   + AmountOfKey(body.breakdown["invoice"], "PAID")
                   - body.totals.expenses.amount
            /\ body.thisMonth.netIncome =
                   body.thisMonth.incomes.amount
                   + SumAmount(Paid(CreatedIn("invoice", user, body.monthName, body.monthName)))
                   - body.thisMonth.expenses.amount
            /\ body.selectedPeriod # <<>> =>
                   body.selectedPeriod[1].netIncome =
                       body.selectedPeriod[1].incomes.amount
                       + AmountOfKey(body.breakdown["invoice"], "PAID")
                       - body.selectedPeriod[1].expenses.amount

\* the report field names of the kinds
Plural == [expense |-> "expenses", income |-> "incomes", invoice |-> "invoices"]

\* C7: in every report, for each kind, the amounts of the breakdown rows add
\* up to totals[kind].amount and their counts to totals[kind].count, also
\* when entries of the owner are written while the report's queries run.
C7_BreakdownAddsUp ==
    \A r \in Requests : Answered(r) =>
        \A k \in Kinds :
            /\ SumOver(response[r].body.breakdown[k], "amount")
                   = response[r].body.totals[Plural[k]].amount
            /\ SumOver(response[r].body.breakdown[k], "count")
                   = response[r].body.totals[Plural[k]].count

\* the twelve calendar months that end with month m
Trailing12(m) == (m - 11)..m

\* rows of the owner dated inside the lookback window
InWindow(kind, user, m) ==
    {row \in db[kind] : row.userId = user /\ row.date \in Trailing12(m)}

\* no calendar month has begun since the run started, so the report's
\* lookback window is the one that ends with curMonth
SameMonth == curMonth = BaseMonth

\* C8: for each kind the monthly trend counts the entries dated inside the
\* lookback window, each in the bucket of its month, and no other entry:
\* totals and counts of the buckets add up to those of the in-window
\* entries, and no bucket has count 0.
C8_TrendCountsWindow ==
    \A r \in Requests : (Answered(r) /\ SameMonth) =>
        \A k \in Kinds :
            LET trend == response[r].body.trends[k]
                rows  == InWindow(k, req[r].user, curMonth)
            IN  /\ SumOver(trend, "total") = SumAmount(rows)
                /\ SumOver(trend, "count") = Cardinality(rows)
                /\ \A i \in 1..Len(trend) :
                       /\ trend[i].count > 0
                       /\ trend[i].count =
                              Cardinality({row \in rows : MonthKey(row.date) = trend[i].month})

\* C9: whatever the owner's entries (dated in the future or long ago), every
\* bucket of a monthly trend has its key among the 12 calendar months that
\* end with the current month; at most 12 buckets, pairwise distinct keys,
\* strictly descending.
C9_TrendWithinTwelveMonths ==
    \A r \in Requests : (Answered(r) /\ SameMonth) =>
        \A k \in Kinds :
            LET trend == response[r].body.trends[k]
            IN  /\ Len(trend) <= 12
                /\ \A i \in 1..Len(trend) :
                       trend[i].month \in {MonthKey(m) : m \in Trailing12(curMonth)}
                /\ \A i \in 1..(Len(trend) - 1) :
                       LocaleLess(trend[i + 1].month, trend[i].month)


\* C10: a call that arrives at now = resetAt of the stored entry, or later,
\* starts a new window: entry replaced by count 1, resetAt = now + window,
\* result success with remaining = maxRequests - 1.
C10_BoundaryStartsWindow ==
    (lastCall.valid /\ lastCall.case \in {"boundary", "after"}) =>
        /\ lastCall.result.success
        /\ lastCall.result.remaining = lastCall.config.maxRequests - 1
        /\ lastCall.key \in DOMAIN rateLimitStore
        /\ rateLimitStore[lastCall.key] =
              [count |-> 1,
               resetTime |-> clock + lastCall.config.windowSeconds * MsPerSecond]

\* an exhausted key is called at the instant its window ends
C10_BoundaryCase ==
    /\ lastCall.valid
    /\ lastCall.case = "boundary"
    /\ lastCall.before >= lastCall.config.maxRequests

\* ledger rows of the report's owner dated inside [gte, lte]
DatedIn(kind, user, gte, lte) ==
    {row \in db[kind] : row.userId = user /\ gte <= row.date /\ row.date <= lte}

\* C24: in the report of a request with period month or year, for each kind,
\* totals, the breakdown and selectedPeriod count exactly the owner's entries
\* whose date (issue date for invoices) lies in the resolved range
\* [meta.startDate, meta.endDate].
C24_PeriodCountsDated ==
    \A r \in Requests : (Answered(r) /\ req[r].period \in {"month", "year"}) =>
        LET body == response[r].body
        IN  \A k \in Kinds :
                LET rows == DatedIn(k, req[r].user, body.meta.startDate[1], body.meta.endDate[1])
                IN  /\ body.totals[Plural[k]].amount = SumAmount(rows)
                    /\ body.totals[Plural[k]].count = Cardinality(rows)
                    /\ SumOver(body.breakdown[k], "count") = Cardinality(rows)
                    /\ body.selectedPeriod # <<>>
                    /\ body.selectedPeriod[1][Plural[k]].amount = SumAmount(rows)
                    /\ body.selectedPeriod[1][Plural[k]].count = Cardinality(rows)

----------------------------------------------------------------------------
(* Text-Understanding Adapter *)

Settled(op) == ai.pc = "settled" /\ ai.op = op

CategoryKeys ==
    {"foodDining", "transportation", "shopping", "entertainment", "billsUtilities",
     "healthcare", "travel", "education", "business", "other"}

\* a content that no clean-up can turn into JSON: it holds no JSON text at
\* all, or it holds free text
Unparseable(content) ==
    \/ \A i \in 1..Len(content) : content[i] \notin DOMAIN JsonValues
    \/ \E i \in 1..Len(content) : content[i] = FreeText

FellBack == ~ai.outcome.ok \/ Unparseable(ai.outcome.text)

AllDigits(s) == \A i \in 1..Len(s) : s[i] \in Digits

\* digits, or digits and a point and maybe more digits
Numeric(s) ==
    \E d \in 1..Len(s) :
        /\ AllDigits(SubSeq(s, 1, d))
        /\ d = Len(s) \/ (s[d + 1] = "." /\ AllDigits(SubSeq(s, d + 2, Len(s))))

\* the value of a numeric text, counted in 1 / Scale: each digit at its place
RECURSIVE PlaceSum(_, _, _)
PlaceSum(s, k, point) ==
    IF k > Len(s) THEN 0
    ELSE PlaceSum(s, k + 1, point)
         + (IF k < point THEN DigitValue(s[k]) * Pow10(point - 1 - k) * Scale
            ELSE IF k > point THEN (DigitValue(s[k]) * Scale) \div Pow10(k - point)
            ELSE 0)

NumericValue(s) ==
    PlaceSum(s, 1, IF \E k \in 1..Len(s) : s[k] = "."
                   THEN CHOOSE k \in 1..Len(s) : s[k] = "." ELSE Len(s) + 1)

\* the first numeric token of a text: it starts at the first digit and is the
\* longest numeric text from there
FirstNumericToken(text) ==
    LET start == CHOOSE i \in 1..Len(text) : text[i] \in Digits /\ \A j \in 1..(i - 1) : text[j] \notin Digits
        stop  == CHOOSE j \in start..Len(text) :
                     /\ Numeric(SubSeq(text, start, j))
                     /\ \A k \in (j + 1)..Len(text) : ~Numeric(SubSeq(text, start, k))
    IN  SubSeq(text, start, stop)

FirstAmount(text) ==
    IF \E i \in 1..Len(text) : text[i] \in Digits THEN Num(NumericValue(FirstNumericToken(text)))
    ELSE Null

\* d is YYYY-MM-DD of the day
IsDateOf(d, day) ==
    /\ d.k = "str" /\ Len(d.s) = 10 /\ d.s[5] = "-" /\ d.s[8] = "-"
    /\ NumericValue(SubSeq(d.s, 1, 4)) = day[1] * Scale
    /\ NumericValue(SubSeq(d.s, 6, 7)) = day[2] * Scale
    /\ NumericValue(SubSeq(d.s, 9, 10)) = day[3] * Scale

C4_ParseFallsBack ==
    Settled("parse") /\ FellBack =>
        /\ ~ai.result.threw
        /\ ai.result.value.amount = FirstAmount(ai.input.text)
        /\ ai.result.value.description = Str(ai.input.text)
        /\ ai.result.value.category = Null
        /\ IsDateOf(ai.result.value.date, Days[ai.day])

C4_Witness ==
    /\ Settled("parse")
    /\ ai.outcome.ok /\ Unparseable(ai.outcome.text)
    /\ ai.input.text = <<"$", "2", "5">>
    /\ ai.result.value.amount = Num(25 * Scale)

\* s holds the text t as a whole number token: t is in s and no digit or
\* point touches it
Embeds(s, t) ==
    \E i \in 1..(Len(s) - Len(t) + 1) :
        /\ SubSeq(s, i, i + Len(t) - 1) = t
        /\ i > 1 => s[i - 1] \notin Digits \cup {"."}
        /\ i + Len(t) <= Len(s) => s[i + Len(t)] \notin Digits \cup {"."}

\* t is an amount written with two decimals
TwoDecimalsOf(t, mills) ==
    /\ Len(t) >= 4 /\ Numeric(t) /\ t[Len(t) - 2] = "."
    /\ (Len(t) > 4 => t[1] # "0")
    /\ LET cents == NumericValue(t) \div (Scale \div 100)
       IN  10 * cents <= mills + 5 /\ mills + 5 < 10 * cents + 10

\* C5: when the provider call fails or its content cannot be parsed,
\* generateFinancialInsights returns normally; the summary embeds
\* totalExpenses written with two decimals, trends has exactly 2 entries and
\* recommendations exactly 3.
C5_InsightsFallBack ==
    Settled("insights") /\ FellBack =>
        /\ ~ai.result.threw
        /\ ai.result.value.summary.k = "str"
        /\ \E i \in 1..Len(ai.result.value.summary.s), j \in 1..Len(ai.result.value.summary.s) :
              /\ i <= j
              /\ Embeds(ai.result.value.summary.s, SubSeq(ai.result.value.summary.s, i, j))
              /\ TwoDecimalsOf(SubSeq(ai.result.value.summary.s, i, j), ai.input.data.totalExpenses)
        /\ Len(ai.result.value.trends) = 2
        /\ Len(ai.result.value.recommendations) = 3

C5_Witness ==
    /\ Settled("insights")
    /\ ~ai.outcome.ok
    /\ ai.input.data.totalExpenses = 1500 * Mills
    /\ Embeds(ai.result.value.summary.s, <<"1", "5", "0", "0", ".", "0", "0">>)

----------------------------------------------------------------------------
(* Period resolution *)

\* a query value that is present and is a number
NumericParam(s) == s # <<>> /\ \A i \in 1..Len(s) : s[i] \in Digits

\* the year and the month the range should be taken from: the given one when
\* it is a number (a month: in 1..12), the current one otherwise
ExpectedYear(p) == IF NumericParam(p.year) THEN ParseInt(p.year) ELSE YearOf(curMonth)

ExpectedMonthIndex(p) ==
    IF NumericParam(p.month) /\ ParseInt(p.month) \in 1..12
    THEN ParseInt(p.month) - 1 ELSE MonthIndexOf(curMonth)

Substituted(p) ==
    \/ ~NumericParam(p.year)
    \/ p.period = "month" /\ (~NumericParam(p.month) \/ ParseInt(p.month) \notin 1..12)

\* C11: a month (or year) request whose year or month value is absent, not a
\* number or out of range is resolved to the range of the current month (or
\* year): each such value is replaced by the current one.
C11_InvalidPeriodIsCurrent ==
    \A r \in Requests :
        res[r].stage # "none" /\ req[r].period \in {"month", "year"} /\ Substituted(req[r]) =>
            /\ res[r].where.valid
            /\ res[r].where.gte =
                   IF req[r].period = "month"
                   THEN MonthNumber(ExpectedYear(req[r]), ExpectedMonthIndex(req[r]))
                   ELSE MonthNumber(ExpectedYear(req[r]), 0)
            /\ res[r].where.lte =
                   IF req[r].period = "month"
                   THEN MonthNumber(ExpectedYear(req[r]), ExpectedMonthIndex(req[r]))
                   ELSE MonthNumber(ExpectedYear(req[r]), 11)

\* C12: whatever the period, year and month values, an authenticated request
\* that is not rate limited is answered with a report (200).
C12_PeriodNeverFails ==
    \A r \in Requests :
        pc[r] = "done" /\ req[r].user # NoUser /\ response[r].status # 429 =>
            response[r].status = 200

----------------------------------------------------------------------------
(* Entries that violate the LedgerEntry invariant *)

\* the owner's rows of a kind that satisfy the invariant: a positive amount
\* (a stored row always has a valid date)
ValidRows(kind, user) == {row \in db[kind] : row.userId = user /\ row.amount > 0}

\* C13: an entry with amount <= 0 that a create endpoint stored contributes
\* to no sum and no count of a report: the totals of an all-time report are
\* the sum and the number of the valid entries.
C13_InvalidEntriesExcluded ==
    \A r \in Requests : Answered(r) /\ req[r].period = "all" =>
        \A k \in Kinds :
            /\ response[r].body.totals[Plural[k]].amount = SumAmount(ValidRows(k, req[r].user))
            /\ response[r].body.totals[Plural[k]].count = Cardinality(ValidRows(k, req[r].user))

----------------------------------------------------------------------------
(* Order of the breakdown rows *)

\* the category and status names in ascending order
NamesAscending == <<"CANCELLED", "OVERDUE", "PAID", "PENDING", "foodDining", "other">>

NameRank(name) == CHOOSE i \in 1..Len(NamesAscending) : NamesAscending[i] = name

\* C14: for each kind the breakdown rows are in descending order of amount,
\* and rows of equal amount in ascending order of category (status) name.
C14_BreakdownOrdered ==
    \A r \in Requests : Answered(r) =>
        \A k \in Kinds :
            \A i, j \in 1..Len(response[r].body.breakdown[k]) : i < j =>
                \/ response[r].body.breakdown[k][i].amount > response[r].body.breakdown[k][j].amount
                \/ /\ response[r].body.breakdown[k][i].amount = response[r].body.breakdown[k][j].amount
                   /\ NameRank(response[r].body.breakdown[k][i].key)
                          < NameRank(response[r].body.breakdown[k][j].key)

----------------------------------------------------------------------------
(* Rate-limit metadata of the responses *)

\* C15: every response of the summary endpoint that followed a rateLimit
\* check, allowed (200) or denied (429), carries the rate-limit metadata
\* {limit, remaining, reset}.
C15_EveryResponseCarriesMetadata ==
    \A r \in Requests :
        response[r].status \in {200, 429} =>
            /\ response[r].headers # <<>>
            /\ response[r].headers[1].limit = RATE_LIMITS.heavy.maxRequests

----------------------------------------------------------------------------
(* The AI routes and the Rate Governor *)

\* the provider is being called, or was called, for a request of a route
ProviderCalledFor(route) ==
    /\ ai.pc \in {"awaiting", "settled"} \/ (ai.pc = "answered" /\ ai.status \in {200, 500})
    /\ ai.caller.route = route

\* C16: when the provider is called for a categorize or parse-expense
\* request, a rateLimit check for the requesting identity was made before
\* and it allowed the request.
C16_CheckBeforeProvider ==
    \A route \in {"categorize", "parse-expense"} :
        ProviderCalledFor(route) => ai.caller.check = "allowed"

\* a handler answered after the provider call of its adapter function failed
AnsweredAfterFailure(route) ==
    /\ ai.pc = "answered"
    /\ ai.caller.route = route
    /\ ai.caller.user # NoUser
    /\ "outcome" \in DOMAIN ai
    /\ ~ai.outcome.ok

\* C25: when the provider call fails during an authenticated, valid request,
\* the categorize handler answers 500 with error "Failed to categorize
\* expense", and the parse-expense and insights handlers answer 200 with the
\* fallback result.
C25_FailureStatusByRoute ==
    /\ AnsweredAfterFailure("categorize") =>
           ai.status = 500 /\ ai.error = "Failed to categorize expense"
    /\ AnsweredAfterFailure("parse-expense") =>
           /\ ai.status = 200
           /\ ai.result.value.description = Str(ai.input.text)
           /\ ai.result.value.category = Null
    /\ AnsweredAfterFailure("insights") =>
           /\ ai.status = 200
           /\ Len(ai.result.value.recommendations) = 3

\* the categorize handler has answered after a failed provider call
C25_Witness == AnsweredAfterFailure("categorize") /\ ai.status = 500

\* C28: a request without a session to the summary, parse-expense, expenses,
\* incomes or invoices handler is answered 401 in a step that leaves the rate
\* store and lastCleanup as they were, and no counter is ever kept for the
\* absent identity.
C28_UnauthorizedLeavesStore ==
    [][/\ (ai' # ai /\ ai'.pc = "answered" /\ ai'.caller.user = NoUser) =>
              /\ ai'.status = 401
              /\ rateLimitStore' = rateLimitStore
              /\ lastCleanup' = lastCleanup
       /\ \A r \in Requests :
              (pc[r] = "auth" /\ req[r].user = NoUser /\ pc'[r] # "auth") =>
                  /\ response'[r].status = 401
                  /\ rateLimitStore' = rateLimitStore
                  /\ lastCleanup' = lastCleanup
       /\ \A k \in DOMAIN rateLimitStore' :
              \E e \in {"summary", "ai-parse", "expenses", "incomes", "invoices"} :
                  k = Key("u1", e)]_vars

\* a list request without a session is answered 401 while the store holds an
\* expired entry that the sweep of a rateLimit call made now would remove
C28_Witness ==
    /\ ai.pc = "answered"
    /\ ai.caller.user = NoUser
    /\ ai.caller.route = "incomes"
    /\ ai.status = 401
    /\ clock - lastCleanup >= CLEANUP_INTERVAL
    /\ \E k \in DOMAIN rateLimitStore : rateLimitStore[k].resetTime < clock

----------------------------------------------------------------------------
(* The argument of generateFinancialInsights *)

\* C30: generateFinancialInsights does not modify its input: after the call,
\* on the success path and on the fallback path, data.expensesByCategory
\* holds the same elements in the same order as before the call.
C30_InsightsKeepInput ==
    (ai.pc = "settled" /\ ai.op = "insights") =>
        ai.result.sortedInput = ai.input.data.expensesByCategory

----------------------------------------------------------------------------
(* The SummaryChart component *)

\* request r is awaited and was not aborted
InFlight(r) == chart.reqs[r].pos # "done" /\ ~chart.reqs[r].aborted

\* C29: whenever a summary request for the selected period is in flight,
\* loading is true; so the abort of an earlier request never sets loading to
\* false while the request of the new period is pending.
C29_LoadingWhileInFlight ==
    chart.mounted =>
        \A r \in 1..Len(chart.reqs) :
            (InFlight(r) /\ chart.reqs[r].period = chart.period) => chart.loading

----------------------------------------------------------------------------
(* Keys of the rate-limit counters *)

\* C17: the counter of a pair (identifier, endpoint) depends on the calls
\* made for that pair only: within one window the n-th call for a pair
\* succeeds iff n <= maxRequests and leaves maxRequests - n, whatever calls
\* were made for other pairs.
C17_PairsIndependent ==
    lastCall.valid =>
        LET n == lastCall.made[lastCall.pair]
        IN  /\ lastCall.result.success = (n <= KeyConfig.maxRequests)
            /\ lastCall.result.remaining =
                   IF n <= KeyConfig.maxRequests THEN KeyConfig.maxRequests - n ELSE 0

----------------------------------------------------------------------------
(* categorizeExpense and parseExpenseFromText when the provider answers *)

CategoryTable ==
    <<"foodDining", "transportation", "shopping", "entertainment", "billsUtilities",
      "healthcare", "travel", "education", "business", "other">>

\* the first integer written in a content: the digits from the first digit
\* up to the next character that is no digit; <<>> when there is no digit
FirstInteger(content) ==
    IF \A i \in 1..Len(content) : content[i] \notin Digits THEN <<>>
    ELSE LET start == CHOOSE i \in 1..Len(content) :
                          content[i] \in Digits /\ \A j \in 1..(i - 1) : content[j] \notin Digits
             stop  == CHOOSE j \in start..Len(content) :
                          /\ AllDigits(SubSeq(content, start, j))
                          /\ j < Len(content) => content[j + 1] \notin Digits
         IN  <<NumericValue(SubSeq(content, start, stop)) \div Scale>>

\* C18: when the provider call succeeds, categorizeExpense returns the key
\* at position d of the category table, d being the first integer of the
\* content, if 1 <= d <= 10, and "other" when there is no integer or d is
\* outside 1..10.
C18_CategoryOfFirstInteger ==
    Settled("categorize") /\ ai.outcome.ok =>
        /\ ~ai.result.threw
        /\ ai.result.value =
               IF FirstInteger(ai.outcome.text) # <<>> /\ FirstInteger(ai.outcome.text)[1] \in 1..10
               THEN CategoryTable[FirstInteger(ai.outcome.text)[1]]
               ELSE "other"

C18_Witness ==
    /\ Settled("categorize") /\ ai.outcome.ok
    /\ ai.outcome.text = <<"x", "7">>
    /\ ai.result.value = "travel"

\* the JSON object a content holds, the fences and blanks around it aside
ObjectIn(content) ==
    JsonValues[content[CHOOSE i \in 1..Len(content) : content[i] \in ExpenseObjects]]

Has(object, name) == name \in DOMAIN object.fields

\* C19: when the provider returns a JSON object, parseExpenseFromText
\* returns the object's amount (null stays null) and description, the
\* table key at position categoryNumber if that is in 1..10 and "other"
\* otherwise, and the object's date, or the current date when it has none.
C19_ParsedObjectIsReturned ==
    Settled("parse") /\ ai.outcome.ok =>
        LET object == ObjectIn(ai.outcome.text)
            value  == ai.result.value
        IN  /\ ~ai.result.threw
            /\ Has(object, "amount") /\ object.fields.amount.k \in {"num", "null"} =>
                   value.amount = object.fields.amount
            /\ Has(object, "description") => value.description = object.fields.description
            /\ value.category =
                   IF Has(object, "categoryNumber")
                      /\ object.fields.categoryNumber.n \in {d * Scale : d \in 1..10}
                   THEN Str(<<CategoryTable[object.fields.categoryNumber.n \div Scale]>>)
                   ELSE Str(<<"other">>)
            /\ IF Has(object, "date") THEN value.date = object.fields.date
               ELSE IsDateOf(value.date, Days[ai.day])

----------------------------------------------------------------------------
(* Alerts of the fallback insights *)

\* the month-over-month increase exceeds 30 percent
IncreaseOver30(data) ==
    /\ data.previousMonthTotal > 0
    /\ (data.currentMonthTotal - data.previousMonthTotal) * 100 > 30 * data.previousMonthTotal

\* C20: in the fallback insights alerts has an entry if and only if the
\* month-over-month increase exceeds 30 percent; it is empty for an
\* increase of at most 30 percent, for a decrease, and when
\* previousMonthTotal is 0.
C20_AlertIffOver30 ==
    Settled("insights") /\ FellBack =>
        (ai.result.value.alerts # <<>>) = IncreaseOver30(ai.input.data)

====
